---------------------------- MODULE Spec2Model ----------------------------
(***************************************************************************)
(* MeowWalker: a cat-sitting quote and schedule tool (React, TypeScript).  *)
(*                                                                         *)
(* The module models the pricing function, the settings form, the quote    *)
(* builder of the Calculator component, the appointment store of the App   *)
(* component with its localStorage persistence effects, and the reminder   *)
(* interval.                                                               *)
(*                                                                         *)
(* Representation.                                                         *)
(*  - Distances are integers in tenths of a kilometre (Km(1) = 10), so     *)
(*    that 1.5 km is 15.  Prices are integers.                             *)
(*  - A calendar date string "YYYY-MM-DD" is the number of its day counted *)
(*    from 1970-01-01 (day 0, a Thursday).  The lexicographic order of the *)
(*    strings is the order of the numbers.                                 *)
(*  - A clock time string "HH:MM" is the pair <<HH, MM>>.                  *)
(*  - An instant (a JavaScript Date) is a number of clock units since the  *)
(*    epoch, UTC; UnitsPerMinute units make one minute.                    *)
(*  - React: an event handler and the render that follows it are one       *)
(*    action; the passive effects the render schedules are separate steps  *)
(*    (pendingEffects) that run before any later handler or timer callback.*)
(***************************************************************************)
EXTENDS Integers, Sequences, FiniteSets, TLC

VARIABLES
    \* ---- App component state (src/App.tsx:41-44)
    view,            \* ViewState shown
    settings,        \* AppSettings in effect
    appointments,    \* Appointment[] of the committed render
    toastMsg,        \* string | null
    \* ---- localStorage
    storedSettings,  \* record under 'meow_settings' (NULL when never written)
    storedApts,      \* record under 'meow_appointments' (NULL when never written)
    \* ---- React scheduling
    phase,           \* "mount" until the load effect has run, then "running"
    pendingEffects,  \* sequence of effects scheduled by the last commit
    pendingState,    \* state updates queued by the load effect, applied by the next render
    migrations,      \* how many times the migration pass has run
    navTimers,       \* pending setTimeout callbacks of handleSaveSettings
    \* ---- reminder interval (src/App.tsx:80-108)
    now,             \* current instant
    tz,              \* minutes the local zone is ahead of UTC
    permission,      \* Notification.permission = 'granted'
    timerAge,        \* clock units since the interval was set or last fired
    tickApts,        \* the appointments captured by the interval's callback
    fired,           \* alerts shown by the most recent checkReminders
    alertLog,        \* history: alerts shown by all the checkReminders calls so far
    \* ---- SettingsForm component state (src/components/SettingsForm.tsx:13)
    localSettings,
    formEdits,       \* edits made in the settings form so far (bounds the model)
    \* ---- Calculator component state (src/unnamed/part_001:58-75)
    address, clientName, catCount, selectedDates, time, lockCode, notes,
    isLoading, quote,
    calc,            \* the handleCalculate call in flight, with what its closure captured
    earlierCalcs,    \* handleCalculate calls started before calc and still in flight
    nextId,          \* source of fresh appointment identifiers
    \* ---- module state of the map service (src/unnamed/part_002:12-82)
    windowAMap,      \* window.AMap is set: a script has loaded
    aMapLoader,      \* the cached loader promise, of the script it names, or NULL
    scripts,         \* the scripts injected so far: "loading", "loaded" or "failed"
    waiters,         \* the waitForAMap calls in flight, oldest first
    \* ---- AddressInput component state (src/components/AddressInput.tsx:20-26)
    inputQuery,      \* the state hook query of AddressInput
    suggestions, loading, showDropdown,
    debounceRef,     \* the value the pending debounce timer will search, or NULL
    searches,        \* the performSearch calls awaiting searchPlaces
    issued,          \* history: the terms given to searchPlaces, in order
    \* ---- pure-function harness
    arg, result,
    \* ---- history
    lastOp           \* the store operation or timer callback that ran last

appVars     == <<view, settings, appointments, toastMsg>>
storageVars == <<storedSettings, storedApts>>
reactVars   == <<phase, pendingEffects, pendingState, migrations, navTimers>>
timerVars   == <<now, tz, permission, timerAge, tickApts, fired, alertLog>>
formVars    == <<address, clientName, catCount, selectedDates, time, lockCode, notes>>
calcVars    == <<isLoading, quote, calc, earlierCalcs, nextId>>
mapVars     == <<windowAMap, aMapLoader, scripts, waiters>>
inputVars   == <<inputQuery, suggestions, loading, showDropdown, debounceRef,
                 searches, issued>>
harnessVars == <<arg, result>>

settingsFormVars == <<localSettings, formEdits>>

vars == <<appVars, storageVars, reactVars, timerVars, settingsFormVars,
          formVars, calcVars, mapVars, inputVars, harnessVars, lastOp>>

NULL == [null |-> TRUE]

\* A localStorage item: NULL when the key was never written, else the value
\* JSON.parse gives back for the string JSON.stringify wrote.
Stored(v) == [json |-> v]

-----------------------------------------------------------------------------
(* Bounds of the model                                                     *)

MaxTiers == 3        \* longest tier table drawn or built in the settings form
MaxCats  == 2        \* largest cat count
MaxApts  == 3        \* longest appointment list
MaxFormTiers  == 5   \* longest tier table the settings form is taken to
MaxFormEdits  == 3   \* edits made in the settings form in one run
MaxNavTimers  == 2   \* handleSaveSettings timeouts pending at once
MaxIds   == 4        \* identifiers handed out in one run of the store
MaxWindow == 3       \* minutes the clock is followed from each start instant
MaxLate == 1         \* clock units a timer callback can run after it is due
MaxTips == 2         \* tips in one answer of the autocomplete
MaxEarlier == 1      \* handleCalculate calls in flight besides the latest one
MaxWaiters == 2      \* waitForAMap calls in flight
MaxScripts == 3      \* scripts injected in one run
MaxSearches == 3     \* performSearch calls in one run
UnitsPerMinute == 2  \* clock units per minute: the resolution of the clock

-----------------------------------------------------------------------------
(* Pricing                                                                 *)

Km(n) == n * 10

Tier(d, p) == [maxDistance |-> d, price |-> p]

DEFAULT_SETTINGS ==
    [ baseAddress       |-> "base",
      pricingTiers      |-> << Tier(Km(1), 20), Tier(Km(2), 25),
                               Tier(Km(3), 30), Tier(Km(5), 40) >>,
      holidaySurcharge  |-> 10,
      extraCatSurcharge |-> 5 ]

\* t => distance <= t.maxDistance, the predicate given to Array.find
TierMatchesExclusive(t, distance) == distance < t.maxDistance
TierMatches(t, distance) == distance <= t.maxDistance

\* Array.prototype.find as an index: the first index whose tier matches, 0 for
\* undefined.
RECURSIVE FindFrom(_, _, _)
FindFrom(tiers, distance, i) ==
    IF i > Len(tiers) THEN 0
    ELSE IF TierMatches(tiers[i], distance) THEN i
    ELSE FindFrom(tiers, distance, i + 1)

FindTier(tiers, distance) == FindFrom(tiers, distance, 1)

\* pricingTiers[length - 1] of an empty table is undefined and reading .price
\* of it throws a TypeError.
calculateSingleTripPriceNeverThrows(s, distance) == FALSE
calculateSingleTripPriceThrows(s, distance) ==
    /\ FindTier(s.pricingTiers, distance) = 0
    /\ Len(s.pricingTiers) = 0

\* if (isHoliday) price += settings.holidaySurcharge
HolidayFeePerCat(s, cats, isHoliday) == IF isHoliday THEN cats * s.holidaySurcharge ELSE 0
HolidayFee(s, cats, isHoliday) == IF isHoliday THEN s.holidaySurcharge ELSE 0

\* if (cats > 1) price += (cats - 1) * settings.extraCatSurcharge
ExtraCatFeeEveryCat(s, cats) == IF cats > 1 THEN cats * s.extraCatSurcharge ELSE 0
ExtraCatFee(s, cats) == IF cats > 1 THEN (cats - 1) * s.extraCatSurcharge ELSE 0

calculateSingleTripPrice(s, distance, cats, isHoliday) ==
    LET i == FindTier(s.pricingTiers, distance)
        base == IF i # 0 THEN s.pricingTiers[i].price
                ELSE s.pricingTiers[Len(s.pricingTiers)].price
    IN  base + HolidayFee(s, cats, isHoliday) + ExtraCatFee(s, cats)


-----------------------------------------------------------------------------
(* Values every specification starts from                                  *)

SeqsUpTo(S, n) == UNION { [1..k -> S] : k \in 0..n }

NoCalc == [pc |-> "idle"]
NoArg == [none |-> TRUE]
NoOp == [op |-> "none"]

AppDefaults ==
    /\ view = "CALCULATOR"
    /\ settings = DEFAULT_SETTINGS
    /\ appointments = << >>
    /\ toastMsg = NULL

StorageEmpty ==
    /\ storedSettings = NULL
    /\ storedApts = NULL

ReactIdle ==
    /\ phase = "running"
    /\ pendingEffects = << >>
    /\ pendingState = NULL
    /\ migrations = 0
    /\ navTimers = 0

TimerIdle ==
    /\ now = 0
    /\ tz = 0
    /\ permission = FALSE
    /\ timerAge = 0
    /\ tickApts = << >>
    /\ fired = {}
    /\ alertLog = {}

\* The initial state of the Calculator's hooks (src/unnamed/part_001:58-75)
CalculatorMount ==
    /\ address = ""
    /\ clientName = ""
    /\ catCount = 1
    /\ selectedDates = << >>
    /\ time = <<12, 0>>
    /\ lockCode = ""
    /\ notes = ""
    /\ isLoading = FALSE
    /\ quote = NULL

CalcIdle ==
    /\ calc = NoCalc
    /\ earlierCalcs = << >>
    /\ nextId = 1

\* No script was injected and no call of the map service is in flight.
MapIdle ==
    /\ windowAMap = FALSE
    /\ aMapLoader = NULL
    /\ scripts = << >>
    /\ waiters = << >>

\* The initial state of the hooks of AddressInput, for an empty value prop.
InputIdle ==
    /\ inputQuery = ""
    /\ suggestions = << >>
    /\ loading = FALSE
    /\ showDropdown = FALSE
    /\ debounceRef = NULL
    /\ searches = << >>
    /\ issued = << >>

HarnessIdle ==
    /\ arg = NoArg
    /\ result = NoArg

-----------------------------------------------------------------------------
(* SpecPrice: calculateSingleTripPrice applied to drawn inputs             *)

PriceTierChoices == { Tier(0, 0), Tier(Km(1), 20), Tier(Km(1), 30),
                      Tier(Km(3), 20), Tier(Km(3), 30) }

PriceTables == SeqsUpTo(PriceTierChoices, MaxTiers) \cup {DEFAULT_SETTINGS.pricingTiers}

PriceSettings ==
    { [ baseAddress |-> "base", pricingTiers |-> t,
        holidaySurcharge |-> h, extraCatSurcharge |-> e ] :
      t \in PriceTables, h \in {0, 10}, e \in {0, 5} }

PriceDistances == { 0, Km(1), 15, Km(3), 31, Km(8) }

InitPrice ==
    /\ view = "CALCULATOR"
    /\ settings \in PriceSettings
    /\ appointments = << >>
    /\ toastMsg = NULL
    /\ StorageEmpty /\ ReactIdle /\ TimerIdle
    /\ localSettings = settings
    /\ formEdits = 0
    /\ CalculatorMount /\ CalcIdle /\ HarnessIdle
    /\ MapIdle /\ InputIdle
    /\ lastOp = NoOp

\* One evaluation of calculateSingleTripPrice under the settings in effect.
ApplyPrice ==
    \E d \in PriceDistances, c \in 1..(MaxCats + 1), h \in BOOLEAN :
        /\ arg = NoArg
        /\ arg' = [distance |-> d, cats |-> c, isHoliday |-> h]
        /\ result' = IF calculateSingleTripPriceThrows(settings, d)
                     THEN [threw |-> TRUE, price |-> 0]
                     ELSE [threw |-> FALSE,
                           price |-> calculateSingleTripPrice(settings, d, c, h)]
        /\ UNCHANGED <<appVars, storageVars, reactVars, timerVars, settingsFormVars,
                       formVars, calcVars, mapVars, inputVars, lastOp>>

NextPrice == ApplyPrice

SpecPrice == InitPrice /\ [][NextPrice]_vars

\* ---- helpers of the claims about prices
Thresholds(tiers) == { tiers[i].maxDistance : i \in 1..Len(tiers) }

SortedAscending(tiers) ==
    \A i, j \in 1..Len(tiers) : i < j => tiers[i].maxDistance <= tiers[j].maxDistance

BeyondAll(tiers, d) == \A m \in Thresholds(tiers) : d > m

Surcharges(s, cats, isHoliday) ==
    (IF isHoliday THEN s.holidaySurcharge ELSE 0)
    + (IF cats > 1 THEN (cats - 1) * s.extraCatSurcharge ELSE 0)

\* C1: the base price is that of the first tier in list order whose threshold
\* is at least the distance (threshold inclusive), else that of the last tier;
\* for a table sorted ascending and a distance beyond its largest threshold the
\* price is the last tier's rate plus the surcharges; with the default tiers
\* 8 km, 1 cat, no holiday costs 40 and 1.5 km, 2 cats, holiday costs 40.
C1_TierSelection ==
    (arg # NoArg /\ ~result.threw) =>
        LET tiers == settings.pricingTiers
            d == arg.distance
            base == result.price - Surcharges(settings, arg.cats, arg.isHoliday)
        IN  /\ \/ \E i \in 1..Len(tiers) :
                     /\ d <= tiers[i].maxDistance
                     /\ \A j \in 1..(i - 1) : d > tiers[j].maxDistance
                     /\ base = tiers[i].price
               \/ /\ BeyondAll(tiers, d)
                  /\ base = tiers[Len(tiers)].price
            /\ (SortedAscending(tiers) /\ BeyondAll(tiers, d)) =>
                   result.price = tiers[Len(tiers)].price
                                  + Surcharges(settings, arg.cats, arg.isHoliday)
            /\ (settings = DEFAULT_SETTINGS /\ d = Km(8) /\ arg.cats = 1
                /\ ~arg.isHoliday) => result.price = 40
            /\ (settings = DEFAULT_SETTINGS /\ d = 15 /\ arg.cats = 2
                /\ arg.isHoliday) => result.price = 40

\* C1 witness: an overflow distance priced under a sorted table.
C1_Witness ==
    /\ arg # NoArg
    /\ settings = DEFAULT_SETTINGS
    /\ arg.distance = Km(8)
    /\ arg.cats = 1
    /\ ~arg.isHoliday
    /\ result = [threw |-> FALSE, price |-> 40]


-----------------------------------------------------------------------------
(* App: toasts, views, effects                                             *)

\* No render and no passive effect is outstanding: the next task may run.
Ready == phase = "running" /\ pendingEffects = << >>

\* Toast messages (src/App.tsx and src/unnamed/part_001), by the handler that
\* shows them.
ToastSettingsSaved == [msg |-> "settings saved"]          \* src/App.tsx:141
ToastAdded(n)      == [msg |-> "added", n |-> n]          \* src/App.tsx:124
ToastDeleted       == [msg |-> "deleted"]                 \* src/App.tsx:131
ToastCompleted     == [msg |-> "completed"]               \* src/App.tsx:136

\* The Toast component's timer calls onClose (src/App.tsx:26-30, 156).
ToastClose ==
    /\ Ready
    /\ toastMsg # NULL
    /\ toastMsg' = NULL
    /\ UNCHANGED <<view, settings, appointments, storageVars, reactVars, timerVars,
                   settingsFormVars, formVars, calcVars, mapVars, inputVars,
                   harnessVars, lastOp>>

\* A change of view unmounts the component shown and mounts the next one: the
\* state hooks of Calculator and SettingsForm start from their initial values
\* (useState(settings) for the form), and a handleCalculate call in flight
\* goes on without a mounted component.
ViewChange(v) ==
    /\ view' = v
    /\ IF v = view
       THEN UNCHANGED <<localSettings, formVars, isLoading, quote, calc, earlierCalcs>>
       ELSE /\ localSettings' = settings
            /\ address' = ""
            /\ clientName' = ""
            /\ catCount' = 1
            /\ selectedDates' = << >>
            /\ time' = <<12, 0>>
            /\ lockCode' = ""
            /\ notes' = ""
            /\ isLoading' = FALSE
            /\ quote' = NULL
            /\ calc' = IF calc.pc = "idle" THEN calc
                       ELSE [calc EXCEPT !.mounted = FALSE]
            /\ earlierCalcs' = [ k \in 1..Len(earlierCalcs) |->
                                  [earlierCalcs[k] EXCEPT !.mounted = FALSE] ]

\* The navigation buttons (src/App.tsx:199-231)
setView(v) ==
    /\ Ready
    /\ ViewChange(v)
    /\ UNCHANGED <<settings, appointments, toastMsg, storageVars, reactVars,
                   timerVars, formEdits, nextId, mapVars, inputVars, harnessVars,
                   lastOp>>

\* The callback of setTimeout(() => setView(CALCULATOR), 1000) (src/App.tsx:142)
NavTimeout ==
    /\ Ready
    /\ navTimers > 0
    /\ navTimers' = navTimers - 1
    /\ ViewChange("CALCULATOR")
    /\ UNCHANGED <<settings, appointments, toastMsg, storageVars, phase,
                   pendingEffects, pendingState, migrations,
                   timerVars, formEdits, nextId, mapVars, inputVars, harnessVars,
                   lastOp>>

\* useEffect(() => localStorage.setItem('meow_settings', ...), [settings])
SaveSettingsEffect ==
    /\ pendingEffects # << >>
    /\ Head(pendingEffects) = "saveSettings"
    /\ storedSettings' = Stored(settings)
    /\ pendingEffects' = Tail(pendingEffects)
    /\ UNCHANGED <<appVars, storedApts, phase, pendingState, migrations, navTimers,
                   timerVars, settingsFormVars, formVars, calcVars, mapVars, inputVars,
                   harnessVars,
                   lastOp>>

handleSaveSettings(newSettings) ==
    /\ navTimers < MaxNavTimers
    /\ settings' = newSettings
    /\ toastMsg' = ToastSettingsSaved
    /\ navTimers' = navTimers + 1
       \* setSettings with the object already in state renders nothing
    /\ pendingEffects' = IF newSettings # settings THEN << "saveSettings" >> ELSE << >>
    /\ UNCHANGED <<view, appointments, storageVars, phase, pendingState, migrations>>

-----------------------------------------------------------------------------
(* SettingsForm (src/components/SettingsForm.tsx)                          *)

\* The texts typed into a number input, and parseFloat of the numeric ones.
InputTexts == { "", "6" }
Numeric == ("6" :> 6)
parseFloatOrZero(text) == IF text \in DOMAIN Numeric THEN Numeric[text] ELSE 0

\* The number a tier field holds for a typed value: kilometres for
\* maxDistance, currency units for price.
FieldValue(field, text) ==
    IF field = "maxDistance" THEN Km(parseFloatOrZero(text))
    ELSE parseFloatOrZero(text)

FormOpen == Ready /\ view = "SETTINGS"

FormFrame ==
    UNCHANGED <<appVars, storageVars, reactVars, timerVars, formVars, calcVars,
                mapVars, inputVars, harnessVars, lastOp>>

handleTierChange(index, field, value) ==
    /\ FormOpen
    /\ formEdits < MaxFormEdits
    /\ index \in 1..Len(localSettings.pricingTiers)
    /\ localSettings' =
         [localSettings EXCEPT !.pricingTiers[index][field] = FieldValue(field, value)]
    /\ formEdits' = formEdits + 1
    /\ FormFrame

\* The tier appended by the form: { maxDistance: 0, price: 0 }
handleAddTier ==
    /\ FormOpen
    /\ formEdits < MaxFormEdits
    /\ Len(localSettings.pricingTiers) < MaxFormTiers
    /\ localSettings' =
         [localSettings EXCEPT !.pricingTiers = Append(@, Tier(0, 0))]
    /\ formEdits' = formEdits + 1
    /\ FormFrame

RemoveAt(seq, index) ==
    [ i \in 1..(Len(seq) - 1) |-> IF i < index THEN seq[i] ELSE seq[i + 1] ]

handleRemoveTier(index) ==
    /\ FormOpen
    /\ formEdits < MaxFormEdits
    /\ index \in 1..Len(localSettings.pricingTiers)
    /\ localSettings' =
         [localSettings EXCEPT !.pricingTiers = RemoveAt(@, index)]
    /\ formEdits' = formEdits + 1
    /\ FormFrame

\* The form's save button: onSave(localSettings)
save ==
    /\ FormOpen
    /\ handleSaveSettings(localSettings)
    /\ UNCHANGED <<timerVars, settingsFormVars, formVars, calcVars, mapVars, inputVars,
                   harnessVars,
                   lastOp>>

-----------------------------------------------------------------------------
(* SpecSettings: the tier table edited in the settings form and saved      *)

InitSettings ==
    /\ AppDefaults
    /\ storedSettings = Stored(DEFAULT_SETTINGS)
    /\ storedApts = Stored(<< >>)
    /\ ReactIdle /\ TimerIdle
    /\ localSettings = settings
    /\ formEdits = 0
    /\ CalculatorMount /\ CalcIdle /\ HarnessIdle
    /\ MapIdle /\ InputIdle
    /\ lastOp = NoOp

NextSettings ==
    \/ \E v \in {"CALCULATOR", "SCHEDULE", "SETTINGS"} : setView(v)
    \/ NavTimeout
    \/ ToastClose
    \/ \E i \in 1..MaxFormTiers, f \in {"maxDistance", "price"}, t \in InputTexts :
           handleTierChange(i, f, t)
    \/ handleAddTier
    \/ \E i \in 1..MaxFormTiers : handleRemoveTier(i)
    \/ save
    \/ SaveSettingsEffect

SpecSettings == InitSettings /\ [][NextSettings]_vars

SetMax(S) == CHOOSE m \in S : \A x \in S : x <= m

\* C2: whatever tier table is in effect, a distance beyond every threshold is
\* charged the price of a tier with the largest maxDistance.
C2_OverflowChargesLargestTier ==
    \A d \in PriceDistances :
        LET tiers == settings.pricingTiers IN
        (Len(tiers) > 0 /\ BeyondAll(tiers, d)) =>
            \E i \in 1..Len(tiers) :
                /\ tiers[i].maxDistance = SetMax(Thresholds(tiers))
                /\ calculateSingleTripPrice(settings, d, 1, FALSE) = tiers[i].price


-----------------------------------------------------------------------------
(* Dates (src/unnamed/part_002:166-171, src/App.tsx:82-92)                 *)

MinutesPerDay == 24 * 60

\* new Date("YYYY-MM-DD"): a date-only string is midnight UTC of that day; the
\* value is in minutes since the epoch.
DateFromString(day) == day * MinutesPerDay

\* The calendar day of an instant (in minutes) on the local clock: what
\* toDateString, getDay, getHours and getMinutes read.
LocalDay(minutes) == (minutes + tz) \div MinutesPerDay
LocalMinuteOfDay(minutes) == (minutes + tz) % MinutesPerDay

\* Date.prototype.getDay: 0 is Sunday; 1970-01-01 was a Thursday.
getDay(minutes) == (LocalDay(minutes) + 4) % 7

checkIsHoliday(dateStr) ==
    LET day == getDay(DateFromString(dateStr))
    IN  day = 0 \/ day = 6

\* The time zones the browser is taken to run in: UTC-5 and UTC+8.
TimeZones == { -300, 480 }

-----------------------------------------------------------------------------
(* Calculator (src/unnamed/part_001:57-241)                                *)

ToastNeedAddress == [msg |-> "enter the client address"]        \* :138
ToastNeedOrigin  == [msg |-> "configure the base address"]      \* :142
ToastNeedDates   == [msg |-> "select at least one date"]        \* :146
ToastGeneric     == [msg |-> "cannot compute the route"]        \* :183
ToastNeedName    == [msg |-> "enter the client name"]           \* :213
ToastError(e)    == [msg |-> e]                                 \* :183-184

Range(seq) == { seq[i] : i \in 1..Len(seq) }

\* Array.prototype.sort of strings without duplicates: ascending order.
RECURSIVE SortAsc(_)
SortAsc(S) ==
    IF S = {} THEN << >>
    ELSE LET m == CHOOSE x \in S : \A y \in S : x <= y
         IN  << m >> \o SortAsc(S \ {m})

CalculatorOpen == Ready /\ view = "CALCULATOR"

CalculatorFrame ==
    UNCHANGED <<appVars, storageVars, reactVars, timerVars, settingsFormVars,
                nextId, mapVars, inputVars, harnessVars, lastOp>>

setAddress(v) ==
    /\ CalculatorOpen
    /\ address' = v
    /\ UNCHANGED <<clientName, catCount, selectedDates, time, lockCode, notes,
                   isLoading, quote, calc, earlierCalcs>>
    /\ CalculatorFrame

setClientName(v) ==
    /\ CalculatorOpen
    /\ clientName' = v
    /\ UNCHANGED <<address, catCount, selectedDates, time, lockCode, notes,
                   isLoading, quote, calc, earlierCalcs>>
    /\ CalculatorFrame

\* The - and + buttons of the cat count (src/unnamed/part_001:346-348)
setCatCount(delta) ==
    /\ CalculatorOpen
    /\ catCount + delta <= MaxCats
    /\ catCount' = IF delta < 0 THEN (IF catCount - 1 > 1 THEN catCount - 1 ELSE 1)
                   ELSE catCount + 1
    /\ UNCHANGED <<address, clientName, selectedDates, time, lockCode, notes,
                   isLoading, quote, calc, earlierCalcs>>
    /\ CalculatorFrame

handleAddDate(val) ==
    /\ CalculatorOpen
    /\ selectedDates' = IF val \notin Range(selectedDates)
                        THEN SortAsc(Range(selectedDates) \cup {val})
                        ELSE selectedDates
    /\ UNCHANGED <<address, clientName, catCount, time, lockCode, notes,
                   isLoading, quote, calc, earlierCalcs>>
    /\ CalculatorFrame

removeDate(dateToRemove) ==
    /\ CalculatorOpen
    /\ dateToRemove \in Range(selectedDates)
    /\ selectedDates' = SelectSeq(selectedDates, LAMBDA d : d # dateToRemove)
    /\ UNCHANGED <<address, clientName, catCount, time, lockCode, notes,
                   isLoading, quote, calc, earlierCalcs>>
    /\ CalculatorFrame

setTime(v) ==
    /\ CalculatorOpen
    /\ time' = v
    /\ UNCHANGED <<address, clientName, catCount, selectedDates, lockCode, notes,
                   isLoading, quote, calc, earlierCalcs>>
    /\ CalculatorFrame

\* The lock code and notes inputs are rendered with the quote only.
setLockCode(v) ==
    /\ CalculatorOpen
    /\ quote # NULL
    /\ lockCode' = v
    /\ UNCHANGED <<address, clientName, catCount, selectedDates, time, notes,
                   isLoading, quote, calc, earlierCalcs>>
    /\ CalculatorFrame

setNotes(v) ==
    /\ CalculatorOpen
    /\ quote # NULL
    /\ notes' = v
    /\ UNCHANGED <<address, clientName, catCount, selectedDates, time, lockCode,
                   isLoading, quote, calc, earlierCalcs>>
    /\ CalculatorFrame

\* ---- handleCalculate (src/unnamed/part_001:136-188)

\* Its synchronous part: the three checks, then setIsLoading(true) and the
\* call of calculateDistance.  calc keeps what the closure of the call reads
\* later: address, selectedDates, catCount and settings of this render.
ValidationSkipsDates ==
    IF address = "" THEN ToastNeedAddress
    ELSE IF settings.baseAddress = "" THEN ToastNeedOrigin
    ELSE NULL
\* The three checks, in order: the message of the first that fails, NULL when
\* all pass.
Validation ==
    IF address = "" THEN ToastNeedAddress
    ELSE IF settings.baseAddress = "" THEN ToastNeedOrigin
    ELSE IF Len(selectedDates) = 0 THEN ToastNeedDates
    ELSE NULL

\* <button disabled={disabled || isLoading}> of the quote button
\* (src/unnamed/part_001:28, 397)
QuoteButtonNeverDisabled == FALSE
QuoteButtonDisabled == isLoading

\* A call that passes the checks starts next to the calls still in flight:
\* handleCalculate itself looks at none of them.
handleCalculate ==
    /\ CalculatorOpen
    /\ ~QuoteButtonDisabled
    /\ calc.pc = "idle" \/ Len(earlierCalcs) < MaxEarlier
    /\ IF Validation # NULL
       THEN toastMsg' = Validation /\ UNCHANGED <<isLoading, calc, earlierCalcs>>
       ELSE /\ isLoading' = TRUE
            /\ calc' = [ pc |-> "distance", mounted |-> TRUE,
                         origin |-> settings.baseAddress, address |-> address,
                         selectedDates |-> selectedDates, catCount |-> catCount,
                         settings |-> settings ]
            /\ earlierCalcs' = IF calc.pc = "idle" THEN earlierCalcs
                               ELSE Append(earlierCalcs, calc)
            /\ UNCHANGED toastMsg
    /\ UNCHANGED <<view, settings, appointments, storageVars, reactVars, timerVars,
                   settingsFormVars, formVars, quote, nextId, mapVars, inputVars,
                   harnessVars, lastOp>>

\* The loop over the dates: { date, isHoliday, price } for each, in order.
DateDetails(dates, s, distanceKm, cats) ==
    [ k \in 1..Len(dates) |->
        [ date |-> dates[k],
          isHoliday |-> checkIsHoliday(dates[k]),
          price |-> calculateSingleTripPrice(s, distanceKm, cats,
                                             checkIsHoliday(dates[k])) ] ]

RECURSIVE SumTo(_, _)
SumTo(details, n) ==
    IF n = 0 THEN 0 ELSE SumTo(details, n - 1) + details[n].price

\* total += p over the loop
QuoteTotalFirstTimesDays(details) == Len(details) * details[1].price
QuoteTotal(details) == SumTo(details, Len(details))

\* The breakdown lines: what each line reports.
Breakdown(c, distResult, details) ==
    LET holidayCount == Cardinality({ k \in 1..Len(details) : details[k].isHoliday })
    IN  << [line |-> "distance", km |-> distResult.distanceKm,
            origin |-> c.origin, address |-> c.address],
           [line |-> "days", n |-> Len(c.selectedDates)] >>
        \o (IF holidayCount > 0
            THEN << [line |-> "holidays", n |-> holidayCount] >> ELSE << >>)
        \o (IF c.catCount > 1
            THEN << [line |-> "extraCats", n |-> c.catCount - 1] >> ELSE << >>)

BuildQuote(c, distResult) ==
    LET details == DateDetails(c.selectedDates, c.settings, distResult.distanceKm,
                               c.catCount)
    IN  [ result |-> distResult,
          totalPrice |-> QuoteTotal(details),
          singleTripPrice |-> details[1].price,
          breakdown |-> Breakdown(c, distResult, details),
          dateDetails |-> details ]

\* What calculateDistance resolves with, and what it rejects with: a string
\* (shown as it is) or an Error object (shown as the generic message).
DistanceResults == { [distanceKm |-> 15, durationMin |-> 8],
                     [distanceKm |-> Km(8), durationMin |-> 35] }
DistanceErrors == { [isString |-> TRUE, text |-> "cannot locate the address"],
                    [isString |-> TRUE, text |-> "no riding route found"],
                    [isString |-> TRUE, text |-> "route planning failed"],
                    [isString |-> FALSE, text |-> "map service timeout"],
                    [isString |-> FALSE, text |-> "map script failed to load"] }

CatchToastAlwaysGeneric(e) == ToastGeneric
CatchToast(e) == IF e.isString THEN ToastError(e.text) ELSE ToastGeneric

\* calculateDistance resolved: the rest of the try block runs in the same task
\* (checkIsHoliday awaits nothing), then the finally block.  State setters of
\* an unmounted Calculator do nothing; showToast belongs to App.
CalcResolved(distResult) ==
    /\ Ready
    /\ calc.pc # "idle"
    /\ IF calculateSingleTripPriceThrows(calc.settings, distResult.distanceKm)
       THEN /\ toastMsg' = ToastGeneric
            /\ UNCHANGED quote
       ELSE /\ quote' = IF calc.mounted THEN BuildQuote(calc, distResult) ELSE quote
            /\ UNCHANGED toastMsg
    /\ isLoading' = IF calc.mounted THEN FALSE ELSE isLoading
    /\ calc' = NoCalc
    /\ UNCHANGED <<view, settings, appointments, storageVars, reactVars, timerVars,
                   settingsFormVars, formVars, earlierCalcs, nextId, mapVars,
                   inputVars, harnessVars,
                   lastOp>>

CalcRejected(e) ==
    /\ Ready
    /\ calc.pc # "idle"
    /\ toastMsg' = CatchToast(e)
    /\ isLoading' = IF calc.mounted THEN FALSE ELSE isLoading
    /\ calc' = NoCalc
    /\ UNCHANGED <<view, settings, appointments, storageVars, reactVars, timerVars,
                   settingsFormVars, formVars, quote, earlierCalcs, nextId,
                   mapVars, inputVars, harnessVars, lastOp>>

\* The same two outcomes for a call started before the latest one.
EarlierResolved(k, distResult) ==
    /\ Ready
    /\ k \in 1..Len(earlierCalcs)
    /\ LET c == earlierCalcs[k]
       IN  /\ IF calculateSingleTripPriceThrows(c.settings, distResult.distanceKm)
              THEN /\ toastMsg' = ToastGeneric
                   /\ UNCHANGED quote
              ELSE /\ quote' = IF c.mounted THEN BuildQuote(c, distResult) ELSE quote
                   /\ UNCHANGED toastMsg
           /\ isLoading' = IF c.mounted THEN FALSE ELSE isLoading
    /\ earlierCalcs' = RemoveAt(earlierCalcs, k)
    /\ UNCHANGED <<view, settings, appointments, storageVars, reactVars, timerVars,
                   settingsFormVars, formVars, calc, nextId, mapVars, inputVars,
                   harnessVars, lastOp>>

EarlierRejected(k, e) ==
    /\ Ready
    /\ k \in 1..Len(earlierCalcs)
    /\ toastMsg' = CatchToast(e)
    /\ isLoading' = IF earlierCalcs[k].mounted THEN FALSE ELSE isLoading
    /\ earlierCalcs' = RemoveAt(earlierCalcs, k)
    /\ UNCHANGED <<view, settings, appointments, storageVars, reactVars, timerVars,
                   settingsFormVars, formVars, quote, calc, nextId, mapVars, inputVars,
                   harnessVars,
                   lastOp>>


-----------------------------------------------------------------------------
(* Appointment store (src/App.tsx:122-137) and its effects                 *)

SaveAppointmentsEffect ==
    /\ pendingEffects # << >>
    /\ Head(pendingEffects) = "saveAppointments"
    /\ storedApts' = Stored(appointments)
    /\ pendingEffects' = Tail(pendingEffects)
    /\ UNCHANGED <<appVars, storedSettings, phase, pendingState, migrations,
                   navTimers, timerVars, settingsFormVars, formVars, calcVars,
                   mapVars, inputVars, harnessVars, lastOp>>

\* The reminder effect: its cleanup clears the interval of the previous
\* render, then setInterval starts one whose callback reads the appointments
\* of this render.
ReminderEffectKeepsFirstClosure == IF phase = "mount" THEN appointments ELSE tickApts
ReminderEffectCaptures == appointments

ReminderEffect ==
    /\ pendingEffects # << >>
    /\ Head(pendingEffects) = "reminder"
    /\ tickApts' = ReminderEffectCaptures
    /\ timerAge' = 0
    /\ pendingEffects' = Tail(pendingEffects)
    /\ UNCHANGED <<appVars, storageVars, phase, pendingState, migrations, navTimers,
                   now, tz, permission, fired, alertLog, settingsFormVars, formVars,
                   calcVars,
                   mapVars, inputVars, harnessVars, lastOp>>

\* Every setAppointments call renders with a new array: both effects that
\* depend on [appointments] run again.
AppointmentEffectsWithoutSave == << "reminder" >>
AppointmentEffects == << "saveAppointments", "reminder" >>

Ids(apts) == { apts[k].id : k \in 1..Len(apts) }

\* prev => [...prev, ...newApts]
addAppointment(newApts) ==
    /\ appointments' = appointments \o newApts
    /\ toastMsg' = ToastAdded(Len(newApts))
    /\ ViewChange("SCHEDULE")
    /\ pendingEffects' = AppointmentEffects
    /\ lastOp' = [op |-> "add", ids |-> Ids(newApts)]
    /\ UNCHANGED <<settings, storageVars, phase, pendingState, migrations, navTimers>>

\* prev => prev.filter(a => a.id !== id)
FilterKeepsOnlyId(prev, id) == SelectSeq(prev, LAMBDA a : a.id = id)
FilterOutId(prev, id) == SelectSeq(prev, LAMBDA a : a.id # id)

\* prev => prev.map(a => a.id === id ? { ...a, status: 'completed' } : a)
MapToggle(prev, id) ==
    [ k \in 1..Len(prev) |->
        IF prev[k].id = id
        THEN [prev[k] EXCEPT !.status = IF @ = "completed" THEN "pending"
                                        ELSE "completed"]
        ELSE prev[k] ]
MapComplete(prev, id) ==
    [ k \in 1..Len(prev) |->
        IF prev[k].id = id THEN [prev[k] EXCEPT !.status = "completed"]
        ELSE prev[k] ]

StoreFrame ==
    UNCHANGED <<view, settings, storageVars, phase, pendingState, migrations,
                navTimers, timerVars, settingsFormVars, formVars, calcVars,
                mapVars, inputVars, harnessVars>>

deleteAppointment(id) ==
    /\ Ready
    /\ view = "SCHEDULE"
    /\ appointments' = FilterOutId(appointments, id)
    /\ toastMsg' = ToastDeleted
    /\ pendingEffects' = AppointmentEffects
    /\ lastOp' = [op |-> "delete", id |-> id, hit |-> id \in Ids(appointments)]
    /\ StoreFrame

completeAppointment(id) ==
    /\ Ready
    /\ view = "SCHEDULE"
    /\ appointments' = MapComplete(appointments, id)
    /\ toastMsg' = ToastCompleted
    /\ pendingEffects' = AppointmentEffects
    /\ lastOp' = [op |-> "complete", id |-> id, hit |-> id \in Ids(appointments)]
    /\ StoreFrame

-----------------------------------------------------------------------------
(* handleSave (src/unnamed/part_001:210-241)                               *)

\* The appointment made for one entry of quote.dateDetails.  The identifier
\* Date.now() + Math.random().toString() is a fresh value.
AppointmentSplitsTotal(detail, id, q) ==
    [ id |-> id, clientName |-> clientName, address |-> address,
      date |-> detail.date, time |-> time, catCount |-> catCount,
      distanceKm |-> q.result.distanceKm, durationMin |-> q.result.durationMin,
      totalPrice |-> q.totalPrice \div Len(q.dateDetails),
      lockCode |-> IF lockCode = "" THEN "not filled" ELSE lockCode,
      notes |-> IF notes = "" THEN "none" ELSE notes,
      isHoliday |-> detail.isHoliday, status |-> "pending" ]
AppointmentFor(detail, id, q) ==
    [ id |-> id, clientName |-> clientName, address |-> address,
      date |-> detail.date, time |-> time, catCount |-> catCount,
      distanceKm |-> q.result.distanceKm, durationMin |-> q.result.durationMin,
      totalPrice |-> detail.price,
      lockCode |-> IF lockCode = "" THEN "not filled" ELSE lockCode,
      notes |-> IF notes = "" THEN "none" ELSE notes,
      isHoliday |-> detail.isHoliday, status |-> "pending" ]

NewAppointments(q) ==
    [ k \in 1..Len(q.dateDetails) |->
        AppointmentFor(q.dateDetails[k], nextId + k - 1, q) ]

handleSave ==
    /\ CalculatorOpen
    /\ quote # NULL
    /\ IF clientName = ""
       THEN /\ toastMsg' = ToastNeedName
            /\ UNCHANGED <<view, settings, appointments, storageVars, reactVars,
                           settingsFormVars, formVars, calcVars, mapVars, inputVars,
                           lastOp>>
       ELSE /\ Len(appointments) + Len(quote.dateDetails) <= MaxApts
            /\ addAppointment(NewAppointments(quote))
            /\ nextId' = nextId + Len(quote.dateDetails)
            /\ UNCHANGED formEdits
    /\ UNCHANGED <<timerVars, mapVars, inputVars, harnessVars>>

-----------------------------------------------------------------------------
(* SpecQuote: one session of the Calculator, from its mount to the save    *)

QuoteDates == { 1, 3 }      \* 1970-01-02 (a Friday) and 1970-01-04 (a Sunday)

\* An appointment already in the store when the session starts.
StoredAppointment ==
    [ id |-> 1, clientName |-> "Y", address |-> "B", date |-> 1, time |-> <<12, 0>>,
      catCount |-> 1, distanceKm |-> Km(1), durationMin |-> 5, totalPrice |-> 20,
      lockCode |-> "not filled", notes |-> "none", isHoliday |-> FALSE,
      status |-> "pending" ]

InitQuote ==
    /\ view = "CALCULATOR"
    /\ settings = DEFAULT_SETTINGS
    /\ appointments = << StoredAppointment >>
    /\ toastMsg = NULL
    /\ storedSettings = Stored(settings)
    /\ storedApts = Stored(appointments)
    /\ ReactIdle
    /\ now = 0
    /\ tz \in TimeZones
    /\ permission = FALSE
    /\ timerAge = 0
    /\ tickApts = appointments
    /\ fired = {}
    /\ alertLog = {}
    /\ localSettings = settings
    /\ formEdits = 0
    /\ CalculatorMount
    /\ calc = NoCalc
    /\ earlierCalcs = << >>
    /\ nextId = 2
    /\ HarnessIdle
    /\ MapIdle /\ InputIdle
    /\ lastOp = NoOp

NextQuote ==
    \/ \E v \in {"", "A"} : setAddress(v)
    \/ \E v \in {"", "Z"} : setClientName(v)
    \/ \E delta \in {-1, 1} : setCatCount(delta)
    \/ \E d \in QuoteDates : handleAddDate(d)
    \/ \E d \in QuoteDates : removeDate(d)
    \/ \E v \in {<<12, 0>>} : setTime(v)
    \/ \E v \in {"1234"} : setLockCode(v)
    \/ \E v \in {""} : setNotes(v)
    \/ handleCalculate
    \/ \E r \in DistanceResults : CalcResolved(r)
    \/ \E e \in DistanceErrors : CalcRejected(e)
    \/ handleSave
    \/ SaveAppointmentsEffect
    \/ ReminderEffect
    \/ ToastClose

SpecQuote == InitQuote /\ [][NextQuote]_vars

\* ---- helpers of the claims about quotes
RECURSIVE PriceSum(_)
PriceSum(details) ==
    IF details = << >> THEN 0
    ELSE Head(details).price + PriceSum(Tail(details))

\* C3: every quote handleCalculate sets has one dateDetails entry per requested
\* date, in order; each entry's price is calculateSingleTripPrice of the one
\* distance looked up, the cat count of the request and that date's own holiday
\* flag; and totalPrice is the sum of the entries' prices.
C3_QuoteTotalIsSum ==
    [][ (calc.pc = "distance" /\ quote' # quote /\ quote' # NULL) =>
          LET q == quote'
              n == Len(calc.selectedDates)
          IN  /\ n > 0
              /\ Len(q.dateDetails) = n
              /\ \A k \in 1..n :
                   /\ q.dateDetails[k].date = calc.selectedDates[k]
                   /\ q.dateDetails[k].isHoliday = checkIsHoliday(calc.selectedDates[k])
                   /\ q.dateDetails[k].price =
                        calculateSingleTripPrice(calc.settings, q.result.distanceKm,
                                                 calc.catCount,
                                                 checkIsHoliday(calc.selectedDates[k]))
              /\ q.totalPrice = PriceSum(q.dateDetails) ]_vars

\* C3 witness: a quote over a working day and a holiday, for two cats at 1.5 km:
\* 30 + 40.
C3_Witness ==
    /\ quote # NULL
    /\ Len(quote.dateDetails) = 2
    /\ quote.dateDetails[1].price = 30
    /\ quote.dateDetails[2].price = 40
    /\ quote.totalPrice = 70

-----------------------------------------------------------------------------
(* Startup: the mount effects of App (src/App.tsx:46-108)                  *)

\* The effects of the first commit, in the order of their declaration.
MountEffects == << "load", "saveSettings", "saveAppointments", "reminder" >>

\* { ...a, status: a.status || 'pending' }
MigrateOverwrites(a) ==
    [ f \in DOMAIN a \cup {"status"} |-> IF f = "status" THEN "pending" ELSE a[f] ]
MigrateStatus(a) ==
    IF "status" \in DOMAIN a /\ a.status # ""
    THEN a
    ELSE [ f \in DOMAIN a \cup {"status"} |-> IF f = "status" THEN "pending" ELSE a[f] ]

MigrateAll(parsed) == [ k \in 1..Len(parsed) |-> MigrateStatus(parsed[k]) ]

\* The load effect reads both records; its setSettings and setAppointments
\* calls are queued for the next render.
LoadEffect ==
    /\ pendingEffects # << >>
    /\ Head(pendingEffects) = "load"
    /\ pendingState' =
         [ settings |-> storedSettings,
           appointments |-> IF storedApts = NULL THEN NULL
                            ELSE Stored(MigrateAll(storedApts.json)) ]
    /\ migrations' = IF storedApts = NULL THEN migrations ELSE migrations + 1
    /\ pendingEffects' = Tail(pendingEffects)
    /\ UNCHANGED <<appVars, storageVars, phase, navTimers, timerVars,
                   settingsFormVars, formVars, calcVars, mapVars, inputVars,
                   harnessVars, lastOp>>

\* The render that applies what the load effect queued; the effects whose
\* dependency was set run after it.
Render ==
    /\ phase = "mount"
    /\ pendingEffects = << >>
    /\ pendingState # NULL
    /\ phase' = "running"
    /\ settings' = IF pendingState.settings = NULL THEN settings
                   ELSE pendingState.settings.json
    /\ appointments' = IF pendingState.appointments = NULL THEN appointments
                       ELSE pendingState.appointments.json
    /\ pendingEffects' =
         (IF pendingState.settings = NULL THEN << >> ELSE << "saveSettings" >>)
         \o (IF pendingState.appointments = NULL THEN << >> ELSE AppointmentEffects)
    /\ pendingState' = NULL
    /\ localSettings' = settings'
    /\ UNCHANGED <<view, toastMsg, storageVars, migrations, navTimers, timerVars,
                   formEdits, formVars, calcVars, mapVars, inputVars, harnessVars,
                   lastOp>>

-----------------------------------------------------------------------------
(* SpecStore: startup, then add, delete and complete with their effects    *)

\* An appointment as a version without the status field stored it.
LegacyAppointment ==
    [ id |-> 1, clientName |-> "Y", address |-> "B", date |-> 1, time |-> <<12, 0>>,
      catCount |-> 1, distanceKm |-> Km(1), durationMin |-> 5, totalPrice |-> 20,
      lockCode |-> "not filled", notes |-> "none", isHoliday |-> FALSE ]

\* An appointment as Calculator hands it to onSaveAppointment.
SampleAppointment(id, date, isHoliday, status) ==
    [ id |-> id, clientName |-> "Z", address |-> "A", date |-> date,
      time |-> <<12, 0>>, catCount |-> 2, distanceKm |-> 15, durationMin |-> 8,
      totalPrice |-> IF isHoliday THEN 40 ELSE 30,
      lockCode |-> "1234", notes |-> "none", isHoliday |-> isHoliday,
      status |-> status ]

StoredLists ==
    { << >>,
      << LegacyAppointment >>,
      << LegacyAppointment, SampleAppointment(2, 3, TRUE, "completed") >>,
      << StoredAppointment, SampleAppointment(2, 3, TRUE, "pending") >> }

SampleBatches(first) ==
    { << SampleAppointment(first, 1, FALSE, "pending") >>,
      << SampleAppointment(first, 1, FALSE, "pending"),
         SampleAppointment(first + 1, 3, TRUE, "pending") >> }

\* Calculator's call of its onSaveAppointment prop (src/unnamed/part_001:234)
onSaveAppointment(newApts) ==
    /\ CalculatorOpen
    /\ Len(appointments) + Len(newApts) <= MaxApts
    /\ nextId + Len(newApts) - 1 <= MaxIds
    /\ addAppointment(newApts)
    /\ nextId' = nextId + Len(newApts)
    /\ UNCHANGED <<timerVars, formEdits, mapVars, inputVars, harnessVars>>

InitStore ==
    /\ AppDefaults
    /\ storedSettings \in { NULL, Stored(DEFAULT_SETTINGS) }
    /\ storedApts \in { NULL } \cup { Stored(l) : l \in StoredLists }
    /\ phase = "mount"
    /\ pendingEffects = MountEffects
    /\ pendingState = NULL
    /\ migrations = 0
    /\ navTimers = 0
    /\ TimerIdle
    /\ localSettings = settings
    /\ formEdits = 0
    /\ CalculatorMount
    /\ calc = NoCalc
    /\ earlierCalcs = << >>
    /\ nextId = 3
    /\ HarnessIdle
    /\ MapIdle /\ InputIdle
    /\ lastOp = NoOp

NextStore ==
    \/ LoadEffect
    \/ SaveSettingsEffect
    \/ SaveAppointmentsEffect
    \/ ReminderEffect
    \/ Render
    \/ \E v \in {"CALCULATOR", "SCHEDULE"} : setView(v)
    \/ \E b \in SampleBatches(nextId) : onSaveAppointment(b)
    \/ \E id \in 1..MaxIds : deleteAppointment(id)
    \/ \E id \in 1..MaxIds : completeAppointment(id)
    \/ ToastClose

SpecStore == InitStore /\ [][NextStore]_vars

\* ---- helpers of the claims about the store
RECURSIVE Without(_, _)
Without(apts, id) ==
    IF apts = << >> THEN << >>
    ELSE (IF Head(apts).id = id THEN << >> ELSE << Head(apts) >>)
         \o Without(Tail(apts), id)

OtherFields(a) == DOMAIN a \ {"status"}

\* C5: completeAppointment(id) leaves the list as it is when no entry has that
\* id; a second call with the same id changes nothing; it keeps the length and
\* the order, never touches an entry with another id, and changes nothing but
\* the status, to completed, of the entries with that id.
C5_CompleteIdempotent ==
    [][ \A id \in 1..MaxIds :
          completeAppointment(id) =>
            /\ id \notin Ids(appointments) => appointments' = appointments
            /\ (lastOp.op = "complete" /\ lastOp.id = id) => appointments' = appointments
            /\ MapComplete(appointments', id) = appointments'
            /\ Len(appointments') = Len(appointments)
            /\ \A k \in 1..Len(appointments) :
                 IF appointments[k].id # id
                 THEN appointments'[k] = appointments[k]
                 ELSE /\ appointments'[k].status = "completed"
                      /\ \A f \in OtherFields(appointments[k]) :
                           appointments'[k][f] = appointments[k][f] ]_vars

\* C5 witness: an identifier was completed twice in a row, next to an entry
\* with another id that is still pending.
C5_Witness ==
    /\ lastOp = [op |-> "complete", id |-> 2, hit |-> TRUE]
    /\ Len(appointments) = 2
    /\ appointments[1].id = 1
    /\ appointments[1].status = "pending"
    /\ appointments[2].id = 2
    /\ appointments[2].status = "completed"
    /\ pendingEffects = AppointmentEffects
    /\ storedApts = Stored(appointments)

\* C6: deleteAppointment(id) removes the entries with that id and nothing
\* else: the others stay, unmodified and in their order; when no entry has the
\* id the list is unchanged.
C6_DeleteRemovesOnlyId ==
    [][ \A id \in 1..MaxIds :
          deleteAppointment(id) =>
            /\ appointments' = Without(appointments, id)
            /\ id \notin Ids(appointments')
            /\ id \notin Ids(appointments) => appointments' = appointments ]_vars

\* C6 witness: the first of three entries was deleted and the other two remain.
C6_Witness ==
    /\ lastOp = [op |-> "delete", id |-> 1, hit |-> TRUE]
    /\ Len(appointments) = 2
    /\ appointments[1].id = 2
    /\ appointments[2].id = 3

\* C7: the load effect gives status pending to every stored entry without a
\* status and leaves the entries that have one as they are; the render after it
\* puts that list in the state; the migration pass runs once, in the load
\* effect, and never again.
C7_MigrationOnceAtLoad ==
    /\ [](migrations <= 1)
    /\ [][ migrations' # migrations =>
             /\ phase = "mount"
             /\ pendingEffects # << >>
             /\ Head(pendingEffects) = "load"
             /\ storedApts # NULL
             /\ LET old == storedApts.json
                    new == pendingState'.appointments.json
                IN  /\ Len(new) = Len(old)
                    /\ \A k \in 1..Len(old) :
                         IF "status" \in DOMAIN old[k]
                         THEN new[k] = old[k]
                         ELSE /\ new[k].status = "pending"
                              /\ \A f \in DOMAIN old[k] : new[k][f] = old[k][f] ]_vars
    /\ [][ (phase = "mount" /\ phase' = "running" /\ pendingState.appointments # NULL)
             => appointments' = pendingState.appointments.json ]_vars

\* C7 witness: a stored list of an entry without status and a completed entry
\* was loaded.
C7_Witness ==
    /\ phase = "running"
    /\ migrations = 1
    /\ lastOp = NoOp
    /\ Len(appointments) = 2
    /\ appointments[1] = [ f \in DOMAIN LegacyAppointment \cup {"status"} |->
                             IF f = "status" THEN "pending" ELSE LegacyAppointment[f] ]
    /\ appointments[2].status = "completed"

\* C8: once the write that follows an add, a delete or a complete has run,
\* the stored record is the whole list in memory.
C8_StoredEqualsMemory ==
    (phase = "running" /\ \A k \in 1..Len(pendingEffects) :
                             pendingEffects[k] # "saveAppointments")
        => storedApts = Stored(appointments)

\* C8 witness: after a batch of two was added to a loaded list and written.
C8_Witness ==
    /\ lastOp.op = "add"
    /\ Cardinality(lastOp.ids) = 2
    /\ Len(appointments) = 3
    /\ pendingEffects = << >>
    /\ storedApts = Stored(appointments)


-----------------------------------------------------------------------------
(* Reminder interval (src/App.tsx:79-116)                                  *)

\* setInterval's 60000 ms in clock units.
IntervalUnits == UnitsPerMinute

\* After a callback of a repeating timer has run, the timer is set again for
\* the whole interval, counted from that run.
NextTimerAgeOnGrid == timerAge - IntervalUnits
NextTimerAge == 0

\* new Date(): the current instant in minutes
NowMinutes == now \div UnitsPerMinute

\* apt.time.split(':').map(Number), then aptHour * 60 + aptMinute
AptMinutes(apt) == apt.time[1] * 60 + apt.time[2]

\* aptDate.toDateString() === now.toDateString()
IsToday(apt) == LocalDay(DateFromString(apt.date)) = LocalDay(NowMinutes)

\* The showNotification calls checkReminders makes for one appointment, in
\* order.
AlertsFor(apt) ==
    IF apt.status = "completed" \/ ~IsToday(apt) THEN << >>
    ELSE (IF AptMinutes(apt) - LocalMinuteOfDay(NowMinutes) = 30
          THEN << [kind |-> "30min", id |-> apt.id] >> ELSE << >>)
         \o (IF AptMinutes(apt) = LocalMinuteOfDay(NowMinutes)
             THEN << [kind |-> "now", id |-> apt.id] >> ELSE << >>)

RECURSIVE AlertsOf(_)
AlertsOf(apts) ==
    IF apts = << >> THEN << >>
    ELSE AlertsFor(Head(apts)) \o AlertsOf(Tail(apts))

ToastAlert(alert) == [msg |-> "reminder", kind |-> alert.kind, id |-> alert.id]

\* The interval's callback.  It reads the appointments its closure captured;
\* each alert is a Notification when permission is granted, else a toast (the
\* last one stays).
checkRemindersMarksReminded ==
    /\ Ready
    /\ timerAge >= IntervalUnits
    /\ LET alerts == AlertsOf(tickApts)
       IN  /\ fired' = Range(alerts)
           /\ alertLog' = alertLog \cup Range(alerts)
           /\ toastMsg' = IF ~permission /\ alerts # << >>
                          THEN ToastAlert(alerts[Len(alerts)])
                          ELSE toastMsg
           /\ appointments' =
                [ k \in 1..Len(appointments) |->
                    IF \E alert \in Range(alerts) : alert.id = appointments[k].id
                    THEN [appointments[k] EXCEPT !.notes = "reminded"]
                    ELSE appointments[k] ]
    /\ timerAge' = NextTimerAge
    /\ lastOp' = [op |-> "tick"]
    /\ UNCHANGED <<view, settings, storageVars, reactVars, now, tz,
                   permission, tickApts, settingsFormVars, formVars, calcVars,
                   mapVars, inputVars, harnessVars>>
checkReminders ==
    /\ Ready
    /\ timerAge >= IntervalUnits
    /\ LET alerts == AlertsOf(tickApts)
       IN  /\ fired' = Range(alerts)
           /\ alertLog' = alertLog \cup Range(alerts)
           /\ toastMsg' = IF ~permission /\ alerts # << >>
                          THEN ToastAlert(alerts[Len(alerts)])
                          ELSE toastMsg
    /\ timerAge' = NextTimerAge
    /\ lastOp' = [op |-> "tick"]
    /\ UNCHANGED <<view, settings, appointments, storageVars, reactVars, now, tz,
                   permission, tickApts, settingsFormVars, formVars, calcVars,
                   mapVars, inputVars, harnessVars>>

\* Time passes; the interval's callback runs when it is due, or up to MaxLate
\* clock units later.
AdvanceTime ==
    /\ Ready
    /\ timerAge < IntervalUnits + MaxLate
    /\ now' = now + 1
    /\ timerAge' = timerAge + 1
    /\ UNCHANGED <<appVars, storageVars, reactVars, tz, permission, tickApts, fired,
                   alertLog, settingsFormVars, formVars, calcVars, mapVars, inputVars,
                   harnessVars,
                   lastOp>>

-----------------------------------------------------------------------------
(* SpecReminder: the schedule is shown while the clock runs                *)

ReminderAppointment(id, date, t, status) ==
    [ id |-> id, clientName |-> "Z", address |-> "A", date |-> date, time |-> t,
      catCount |-> 1, distanceKm |-> 15, durationMin |-> 8, totalPrice |-> 25,
      lockCode |-> "1234", notes |-> "none", isHoliday |-> FALSE,
      status |-> status ]

ReminderLists ==
    { << ReminderAppointment(1, 3, <<12, 0>>, "pending"),
         ReminderAppointment(2, 3, <<12, 30>>, "pending") >>,
      << ReminderAppointment(1, 3, <<12, 0>>, "pending"),
         ReminderAppointment(2, 4, <<12, 0>>, "pending") >>,
      << ReminderAppointment(2, 3, <<12, 0>>, "completed"),
         ReminderAppointment(1, 3, <<12, 30>>, "pending") >> }

\* Local clock readings the runs start from: one minute before 11:30 and
\* before 12:00, on days 2 and 3.
StartLocalMinutes ==
    { d * MinutesPerDay + m : d \in {2, 3}, m \in {11 * 60 + 29, 11 * 60 + 59} }

InitReminder ==
    /\ view = "SCHEDULE"
    /\ settings = DEFAULT_SETTINGS
    /\ appointments \in ReminderLists
    /\ toastMsg = NULL
    /\ storedSettings = Stored(settings)
    /\ storedApts = Stored(appointments)
    /\ ReactIdle
    /\ tz \in TimeZones
    /\ now \in { (l - tz) * UnitsPerMinute : l \in StartLocalMinutes }
    /\ permission \in BOOLEAN
    /\ timerAge \in 0..(IntervalUnits - 1)
    /\ tickApts = appointments
    /\ fired = {}
    /\ alertLog = {}
    /\ localSettings = settings
    /\ formEdits = 0
    /\ CalculatorMount
    /\ calc = NoCalc
    /\ earlierCalcs = << >>
    /\ nextId = 3
    /\ HarnessIdle
    /\ MapIdle /\ InputIdle
    /\ lastOp = NoOp

\* The runs stay within MaxWindow minutes of a half hour.
NearHalfHour == (NowMinutes + 1) % 30 < MaxWindow

NextReminder ==
    \/ AdvanceTime /\ NearHalfHour
    \/ checkReminders
    \/ \E id \in 1..2 : completeAppointment(id)
    \/ \E id \in 1..2 : deleteAppointment(id)
    \/ SaveAppointmentsEffect
    \/ ReminderEffect
    \/ ToastClose

SpecReminder == InitReminder /\ [][NextReminder]_vars

\* ---- helpers of the claims about reminders
\* The calendar date on the local clock, as a date string's day number.
LocalDateNow == (NowMinutes + tz) \div MinutesPerDay

MinutesUntil(apt) == (apt.time[1] * 60 + apt.time[2]) - ((NowMinutes + tz) % MinutesPerDay)

\* C9: on each tick, for each pending appointment, the 30-minute alert is
\* shown exactly when its date is the current calendar date and
\* minutesUntil = 30, and the time-is-now alert exactly when its date is the
\* current calendar date and minutesUntil = 0; appointments of other dates
\* show nothing.
C9_AlertsExactlyAtThresholds ==
    [][ checkReminders =>
          \A k \in 1..Len(appointments) :
              LET a == appointments[k]
                  today == a.date = LocalDateNow
              IN  a.status = "pending" =>
                    /\ [kind |-> "30min", id |-> a.id] \in fired'
                         <=> (today /\ MinutesUntil(a) = 30)
                    /\ [kind |-> "now", id |-> a.id] \in fired'
                         <=> (today /\ MinutesUntil(a) = 0) ]_vars

\* C10: a tick shows no alert for an appointment that is completed.
C10_CompletedNeverAlerted ==
    [][ checkReminders =>
          \A k \in 1..Len(appointments) :
              appointments[k].status = "completed" =>
                  \A alert \in fired' : alert.id # appointments[k].id ]_vars

\* C10 witness: a tick at 11:30 of the day the code takes for the date of the
\* 12:00 appointment 1, which was completed in this run, showed nothing for it.
C10_Witness ==
    /\ lastOp.op = "tick"
    /\ timerAge = 0
    /\ \E k \in 1..Len(appointments) :
         /\ appointments[k].id = 1
         /\ appointments[k].status = "completed"
         /\ appointments[k].time = <<12, 0>>
         /\ IsToday(appointments[k])
         /\ AptMinutes(appointments[k]) - LocalMinuteOfDay(NowMinutes) = 30
    /\ \A alert \in fired : alert.id # 1

-----------------------------------------------------------------------------
(* SpecRequest: quote requests under the settings a user can have saved    *)

\* The defaults, the defaults with the origin address cleared, and the
\* defaults with every tier removed.
RequestSettings ==
    { DEFAULT_SETTINGS,
      [DEFAULT_SETTINGS EXCEPT !.baseAddress = ""],
      [DEFAULT_SETTINGS EXCEPT !.pricingTiers = << >>] }

InitRequest ==
    /\ view = "CALCULATOR"
    /\ settings \in RequestSettings
    /\ appointments = << >>
    /\ toastMsg = NULL
    /\ storedSettings = Stored(settings)
    /\ storedApts = Stored(appointments)
    /\ ReactIdle
    /\ TimerIdle
    /\ localSettings = settings
    /\ formEdits = 0
    /\ CalculatorMount
    /\ calc = NoCalc
    /\ earlierCalcs = << >>
    /\ nextId = 1
    /\ HarnessIdle
    /\ MapIdle /\ InputIdle
    /\ lastOp = NoOp

NextRequest ==
    \/ \E v \in {"", "A"} : setAddress(v)
    \/ \E delta \in {-1, 1} : setCatCount(delta)
    \/ \E d \in QuoteDates : handleAddDate(d)
    \/ \E d \in QuoteDates : removeDate(d)
    \/ handleCalculate
    \/ \E dr \in DistanceResults : CalcResolved(dr)
    \/ \E e \in DistanceErrors : CalcRejected(e)
    \/ ToastClose

SpecRequest == InitRequest /\ [][NextRequest]_vars

\* C12: handleCalculate with an empty address shows the missing-address
\* message; else with an empty settings.baseAddress the missing-origin
\* message; else with no date the no-dates message; in each case it starts no
\* lookup, isLoading stays false and the quote is unchanged.
C12_ValidationBeforeWork ==
    [][ handleCalculate =>
          LET refused == /\ calc' = calc
                         /\ calc.pc = "idle"
                         /\ ~isLoading'
                         /\ quote' = quote
          IN  /\ address = "" => (toastMsg' = ToastNeedAddress /\ refused)
              /\ (address # "" /\ settings.baseAddress = "")
                   => (toastMsg' = ToastNeedOrigin /\ refused)
              /\ (address # "" /\ settings.baseAddress # "" /\ selectedDates = << >>)
                   => (toastMsg' = ToastNeedDates /\ refused)
              /\ (address # "" /\ settings.baseAddress # "" /\ selectedDates # << >>)
                   => (calc'.pc = "distance" /\ isLoading') ]_vars

\* C12 witness: a request with an address and an origin but no date was
\* refused, next to a quote computed earlier.
C12_Witness ==
    /\ toastMsg = ToastNeedDates
    /\ address # ""
    /\ settings.baseAddress # ""
    /\ selectedDates = << >>
    /\ calc = NoCalc
    /\ earlierCalcs = << >>
    /\ ~isLoading
    /\ quote # NULL

\* C13: when calculateDistance rejects, the request ends without setting a
\* quote, isLoading is false again, and the message shown is the rejection's
\* own text for an address that cannot be located and for a route that is not
\* found, and the generic message for any other failure; the three differ.
C13_LookupFailureAborts ==
    [][ \A e \in DistanceErrors :
          CalcRejected(e) =>
            /\ quote' = quote
            /\ ~isLoading'
            /\ calc' = NoCalc
            /\ toastMsg' = (IF e.isString THEN [msg |-> e.text] ELSE ToastGeneric)
            /\ \A f \in DistanceErrors :
                 (e.isString /\ f.text # e.text) => CatchToast(f) # toastMsg' ]_vars

\* C13 witness: a first request failed on an address that cannot be located.
C13_Witness ==
    /\ toastMsg = ToastError("cannot locate the address")
    /\ address # ""
    /\ selectedDates # << >>
    /\ quote = NULL
    /\ ~isLoading
    /\ calc = NoCalc
    /\ earlierCalcs = << >>

-----------------------------------------------------------------------------
(* Surcharges of calculateSingleTripPrice (SpecPrice)                      *)

-----------------------------------------------------------------------------
(* uniqueClients and handleSelectClient (src/unnamed/part_001:78-94)       *)

\* const key = `${apt.clientName}-${apt.address}`
ClientKey(apt) == apt.clientName \o "-" \o apt.address

\* The value map.set stores for the key of appointment a, met while the map
\* has no such key.
ClientEntryOfLast(apts, a) ==
    LET same == { k \in 1..Len(apts) : ClientKey(apts[k]) = ClientKey(a) }
        last == CHOOSE k \in same : \A j \in same : j <= k
    IN  [ name |-> apts[last].clientName, address |-> apts[last].address,
          lastDate |-> apts[last].date ]
ClientEntry(apts, a) ==
    [ name |-> a.clientName, address |-> a.address, lastDate |-> a.date ]

\* appointments.forEach over a Map, then Array.from(map.values()): the values
\* in the order their keys were first set.  rest is what forEach has still to
\* visit, seen the keys the map has.
RECURSIVE ClientsFrom(_, _, _)
ClientsFrom(apts, rest, seen) ==
    IF rest = << >> THEN << >>
    ELSE IF ClientKey(Head(rest)) \in seen
         THEN ClientsFrom(apts, Tail(rest), seen)
         ELSE << ClientEntry(apts, Head(rest)) >>
              \o ClientsFrom(apts, Tail(rest), seen \cup {ClientKey(Head(rest))})

\* useMemo(..., [appointments]): the list of the render of the current
\* appointments.
uniqueClients == ClientsFrom(appointments, appointments, {})

ToastClientFilled == [msg |-> "client filled in"]                \* :93

handleSelectClient(c) ==
    /\ CalculatorOpen
    /\ clientName' = c.name
    /\ address' = c.address
    /\ toastMsg' = ToastClientFilled
    /\ UNCHANGED <<view, settings, appointments, storageVars, reactVars, timerVars,
                   settingsFormVars, catCount, selectedDates, time, lockCode, notes,
                   calcVars, mapVars, inputVars, harnessVars, lastOp>>

-----------------------------------------------------------------------------
(* SpecClients: the client list over stored appointments                   *)

ClientNames == { "L", "L-A" }
ClientAddresses == { "1", "A-1" }

\* A stored appointment at position k of the list: its id is k and the later
\* it is stored the earlier its date.
ClientAppointment(k, name, addr) ==
    [ id |-> k, clientName |-> name, address |-> addr, date |-> MaxApts + 1 - k,
      time |-> <<12, 0>>, catCount |-> 1, distanceKm |-> 15, durationMin |-> 8,
      totalPrice |-> 25, lockCode |-> "1234", notes |-> "none",
      isHoliday |-> FALSE, status |-> "pending" ]

ClientLists ==
    UNION { { [ k \in 1..n |-> ClientAppointment(k, names[k], addrs[k]) ] :
              names \in [1..n -> ClientNames], addrs \in [1..n -> ClientAddresses] } :
            n \in 0..MaxApts }

InitClients ==
    /\ view = "CALCULATOR"
    /\ settings = DEFAULT_SETTINGS
    /\ appointments \in ClientLists
    /\ toastMsg = NULL
    /\ storedSettings = Stored(settings)
    /\ storedApts = Stored(appointments)
    /\ ReactIdle
    /\ TimerIdle
    /\ localSettings = settings
    /\ formEdits = 0
    /\ CalculatorMount
    /\ CalcIdle
    /\ HarnessIdle
    /\ MapIdle /\ InputIdle
    /\ lastOp = NoOp

NextClients ==
    \/ \E v \in {"CALCULATOR", "SCHEDULE"} : setView(v)
    \/ \E k \in 1..Len(uniqueClients) : handleSelectClient(uniqueClients[k])
    \/ \E id \in 1..MaxApts : deleteAppointment(id)
    \/ SaveAppointmentsEffect
    \/ ReminderEffect
    \/ ToastClose

SpecClients == InitClients /\ [][NextClients]_vars

\* ---- helpers of the claims about the client list
ClientPair(a) == << a.clientName, a.address >>

\* The index of the first stored appointment with the name and address of
\* entry e; 0 when there is none.
FirstIndexOf(e) ==
    LET same == { k \in 1..Len(appointments) :
                    ClientPair(appointments[k]) = << e.name, e.address >> }
    IN  IF same = {} THEN 0 ELSE CHOOSE k \in same : \A j \in same : k <= j

\* C17: the client list has exactly one entry per distinct (clientName,
\* address) pair of the stored appointments, and each pair has an entry with
\* that name and that address.
C17_OneEntryPerPair ==
    /\ Len(uniqueClients)
         = Cardinality({ ClientPair(appointments[k]) : k \in 1..Len(appointments) })
    /\ \A k \in 1..Len(appointments) :
         \E j \in 1..Len(uniqueClients) :
             << uniqueClients[j].name, uniqueClients[j].address >>
                 = ClientPair(appointments[k])

\* C18: each entry of the client list carries the date of the first stored
\* appointment with its name and address; the entries are in the order of
\* those first appointments; and the list is that of the appointments now
\* stored: an entry that can be selected has an appointment in the store.
C18_FirstOccurrenceWins ==
    /\ [](\A j \in 1..Len(uniqueClients) :
            /\ FirstIndexOf(uniqueClients[j]) # 0
            /\ uniqueClients[j].lastDate
                 = appointments[FirstIndexOf(uniqueClients[j])].date
            /\ \A i \in 1..(j - 1) :
                 FirstIndexOf(uniqueClients[i]) < FirstIndexOf(uniqueClients[j]))
    /\ [][ \A j \in 1..Len(uniqueClients) :
             handleSelectClient(uniqueClients[j]) =>
               \E k \in 1..Len(appointments) :
                   ClientPair(appointments[k]) = << clientName', address' >> ]_vars

\* C18 witness: after the first stored appointment was deleted, the two that
\* remain are of one client; back in the Calculator the list has one entry,
\* with the date of the one stored first although it is the later date, and it
\* was selected.
C18_Witness ==
    /\ lastOp = [op |-> "delete", id |-> 1, hit |-> TRUE]
    /\ view = "CALCULATOR"
    /\ Len(appointments) = 2
    /\ ClientPair(appointments[1]) = ClientPair(appointments[2])
    /\ appointments[1].date > appointments[2].date
    /\ Len(uniqueClients) = 1
    /\ uniqueClients[1].lastDate = appointments[1].date
    /\ clientName = uniqueClients[1].name
    /\ toastMsg = ToastClientFilled

-----------------------------------------------------------------------------
(* calculateDistance step by step (src/unnamed/part_002:65-135)            *)
(* calc.pc is where the call in flight waits: "distance" in waitForAMap,   *)
(* "origin" and "destination" in the two getCode calls, "route" in         *)
(* riding.search.                                                          *)

\* Promise.race in waitForAMap settled by the map: window.AMap is returned and
\* geocoder.getLocation(origin) is called.
SdkLoaded ==
    /\ Ready
    /\ calc.pc = "distance"
    /\ calc' = [calc EXCEPT !.pc = "origin"]
    /\ UNCHANGED <<appVars, storageVars, reactVars, timerVars, settingsFormVars,
                   formVars, isLoading, quote, earlierCalcs, nextId, mapVars,
                   inputVars, harnessVars,
                   lastOp>>

\* The load promise rejected: script.onerror, or the callback without AMap.
SdkFailed ==
    /\ calc.pc = "distance"
    /\ CalcRejected([isString |-> FALSE, text |-> "map script failed to load"])

\* The setTimeout of 20000 ms in waitForAMap fired before the map settled the
\* race.
SdkTimeout ==
    /\ calc.pc = "distance"
    /\ CalcRejected([isString |-> FALSE, text |-> "map service timeout"])

\* The callback of geocoder.getLocation, with a location or without.
GeocodeAnswered(found) ==
    /\ calc.pc \in {"origin", "destination"}
    /\ IF found
       THEN /\ Ready
            /\ calc' = [calc EXCEPT !.pc = IF calc.pc = "origin" THEN "destination"
                                           ELSE "route"]
            /\ UNCHANGED <<appVars, storageVars, reactVars, timerVars,
                           settingsFormVars, formVars, isLoading, quote,
                           earlierCalcs, nextId,
                           mapVars, inputVars, harnessVars, lastOp>>
       ELSE CalcRejected([isString |-> TRUE, text |-> "cannot locate the address"])

\* The callback of riding.search with a route.
RouteAnswered(distResult) ==
    /\ calc.pc = "route"
    /\ CalcResolved(distResult)

\* The callback of riding.search without a route, or with a status other than
\* complete.
RouteFailed(e) ==
    /\ calc.pc = "route"
    /\ e.isString
    /\ e.text \in {"no riding route found", "route planning failed"}
    /\ CalcRejected(e)

-----------------------------------------------------------------------------
(* SpecLookup: quote requests with the lookup followed step by step.  The  *)
(* timer of waitForAMap always fires; nothing makes the map service answer. *)

InitLookup ==
    /\ view = "CALCULATOR"
    /\ settings = DEFAULT_SETTINGS
    /\ appointments = << >>
    /\ toastMsg = NULL
    /\ storedSettings = Stored(settings)
    /\ storedApts = Stored(appointments)
    /\ ReactIdle
    /\ TimerIdle
    /\ localSettings = settings
    /\ formEdits = 0
    /\ CalculatorMount
    /\ calc = NoCalc
    /\ earlierCalcs = << >>
    /\ nextId = 1
    /\ HarnessIdle
    /\ MapIdle /\ InputIdle
    /\ lastOp = NoOp

NextLookup ==
    \/ \E v \in {"", "A"} : setAddress(v)
    \/ \E d \in QuoteDates : handleAddDate(d)
    \/ handleCalculate
    \/ SdkLoaded
    \/ SdkFailed
    \/ SdkTimeout
    \/ \E found \in BOOLEAN : GeocodeAnswered(found)
    \/ \E dr \in DistanceResults : RouteAnswered(dr)
    \/ \E e \in DistanceErrors : RouteFailed(e)
    \/ ToastClose

SpecLookup == InitLookup /\ [][NextLookup]_vars /\ WF_vars(SdkTimeout)

\* C19: every quote request that starts a lookup ends: isLoading, once true,
\* becomes false again.
C19_LookupTerminates == isLoading ~> ~isLoading

-----------------------------------------------------------------------------
(* searchPlaces (src/unnamed/part_002:137-164)                             *)

\* A promise that has settled.
Resolved(v) == [settled |-> "resolved", value |-> v]
Rejected(e) == [settled |-> "rejected", value |-> e]

\* A field of a tip is a string, or an empty array when the service has
\* nothing to put there.
EmptyArray == [array |-> TRUE]
Text(str) == [text |-> str]

\* (Array.isArray(x) ? "" : (x || ""))
TextOf(x) == IF "array" \in DOMAIN x THEN "" ELSE x.text

\* tips.filter(tip => tip.id && tip.location).map(...)
RECURSIVE Places(_)
Places(tips) ==
    IF tips = << >> THEN << >>
    ELSE LET tip == Head(tips)
         IN  (IF tip.id # "" /\ tip.location
              THEN << [ name |-> tip.name,
                        address |-> TextOf(tip.district) \o TextOf(tip.address) ] >>
              ELSE << >>)
             \o Places(Tail(tips))

\* What the promise searchPlaces returns settles with.  env says how the map
\* service behaves during the call: whether waitForAMap returns, whether
\* constructing or calling the AutoComplete throws, and the status and tips
\* given to the callback.
\*  - A rejection of the awaited waitForAMap() is thrown inside the try block
\*    and caught: [].
\*  - An exception in the executor of the new Promise rejects that promise; it
\*    is returned without await, so the catch block does not see the
\*    rejection and the promise of searchPlaces rejects with it.
searchPlaces(query, env) ==
    IF query = "" THEN Resolved(<< >>)
    ELSE IF env.sdk # "loaded" THEN Resolved(<< >>)
    ELSE IF env.constructThrows THEN Rejected("TypeError")
    ELSE IF env.status = "complete" /\ env.hasTips
         THEN Resolved(Places(env.tips))
         ELSE Resolved(<< >>)

-----------------------------------------------------------------------------
(* SpecSearch: searchPlaces applied to drawn queries and service behaviour *)

TipChoices ==
    { [id |-> "t1", location |-> TRUE, name |-> "N", district |-> Text("D"),
       address |-> Text("S")],
      [id |-> "t2", location |-> TRUE, name |-> "M", district |-> EmptyArray,
       address |-> EmptyArray],
      [id |-> "t3", location |-> FALSE, name |-> "K", district |-> Text("D"),
       address |-> EmptyArray] }

SearchEnvs ==
    { [sdk |-> l, constructThrows |-> c, status |-> st, hasTips |-> h, tips |-> t] :
      l \in {"loaded", "failed", "timeout"}, c \in BOOLEAN,
      st \in {"complete", "error", "no_data"}, h \in BOOLEAN,
      t \in SeqsUpTo(TipChoices, MaxTips) }

InitSearch ==
    /\ view = "CALCULATOR"
    /\ settings = DEFAULT_SETTINGS
    /\ appointments = << >>
    /\ toastMsg = NULL
    /\ StorageEmpty /\ ReactIdle /\ TimerIdle
    /\ localSettings = settings
    /\ formEdits = 0
    /\ CalculatorMount /\ CalcIdle /\ HarnessIdle
    /\ MapIdle /\ InputIdle
    /\ lastOp = NoOp

\* One call of searchPlaces.
ApplySearch ==
    \E q \in {"", "q"}, env \in SearchEnvs :
        /\ arg = NoArg
        /\ arg' = [query |-> q, env |-> env]
        /\ result' = searchPlaces(q, env)
        /\ UNCHANGED <<appVars, storageVars, reactVars, timerVars, settingsFormVars,
                       formVars, calcVars, mapVars, inputVars, lastOp>>

NextSearch == ApplySearch

SpecSearch == InitSearch /\ [][NextSearch]_vars

\* C20: every call of searchPlaces resolves to a list and never rejects; when
\* the map service fails to load or times out, answers with a status other
\* than complete, or throws while the AutoComplete is constructed or called,
\* the list is empty.
C20_SearchNeverFails ==
    arg # NoArg =>
        /\ result.settled = "resolved"
        /\ (\/ arg.env.sdk # "loaded"
            \/ arg.env.constructThrows
            \/ arg.env.status # "complete") => result.value = << >>

-----------------------------------------------------------------------------
(* SpecLifecycle: add, delete, complete and reminder ticks on one list      *)

\* The schedule of two pending appointments of day 3 is shown at 11:29 local
\* time of that day, east of UTC, with notification permission granted.
LifecycleStart == (3 * MinutesPerDay + 11 * 60 + 29 - 480) * UnitsPerMinute

InitLifecycle ==
    /\ view = "SCHEDULE"
    /\ settings = DEFAULT_SETTINGS
    /\ appointments = << ReminderAppointment(1, 3, <<12, 0>>, "pending"),
                         ReminderAppointment(2, 3, <<12, 30>>, "pending") >>
    /\ toastMsg = NULL
    /\ storedSettings = Stored(settings)
    /\ storedApts = Stored(appointments)
    /\ ReactIdle
    /\ tz = 480
    /\ now = LifecycleStart
    /\ permission = TRUE
    /\ timerAge = 0
    /\ tickApts = appointments
    /\ fired = {}
    /\ alertLog = {}
    /\ localSettings = settings
    /\ formEdits = 0
    /\ CalculatorMount
    /\ calc = NoCalc
    /\ earlierCalcs = << >>
    /\ nextId = 3
    /\ HarnessIdle
    /\ MapIdle /\ InputIdle
    /\ lastOp = NoOp

\* The run covers the minute after the start; the buttons of the
\* schedule act on the entries it shows.
NextLifecycle ==
    \/ AdvanceTime /\ now' <= LifecycleStart + IntervalUnits
    \/ checkReminders
    \/ \E v \in {"CALCULATOR", "SCHEDULE"} : setView(v)
    \/ \E b \in SampleBatches(nextId) : onSaveAppointment(b)
    \/ \E id \in Ids(appointments) : completeAppointment(id)
    \/ \E id \in Ids(appointments) : deleteAppointment(id)
    \/ SaveAppointmentsEffect
    \/ ReminderEffect

SpecLifecycle == InitLifecycle /\ [][NextLifecycle]_vars

\* C21: in every step (add, delete, complete, reminder tick, effect), an
\* appointment of the list that is still in the list afterwards has the same
\* fields with the same values, except that its status may have become
\* completed; a completed appointment never becomes pending again; a reminder
\* tick leaves the list as it is.
C21_OnlyStatusOrRemoval ==
    [][ /\ \A k \in 1..Len(appointments) :
             \A j \in 1..Len(appointments') :
                LET a == appointments[k]
                    b == appointments'[j]
                IN  b.id = a.id =>
                      /\ DOMAIN b = DOMAIN a
                      /\ \A f \in OtherFields(a) : b[f] = a[f]
                      /\ b.status \in {a.status, "completed"}
                      /\ a.status = "completed" => b.status = "completed"
        /\ checkReminders => appointments' = appointments ]_vars

\* C21 witness: appointment 2 was deleted, appointment 3 added, appointment 1
\* alerted for by the tick of 11:30 and then completed: 1 is completed with
\* its other fields as at the start, 3 is pending.
C21_Witness ==
    /\ lastOp = [op |-> "complete", id |-> 1, hit |-> TRUE]
    /\ fired = {[kind |-> "30min", id |-> 1]}
    /\ Len(appointments) = 2
    /\ appointments[1] = ReminderAppointment(1, 3, <<12, 0>>, "completed")
    /\ appointments[2] = SampleAppointment(3, 1, FALSE, "pending")

-----------------------------------------------------------------------------
(* SpecPersist: localStorage.setItem may throw (src/App.tsx:63-70)          *)

\* setItem throws (the quota is exceeded, or storage is denied) inside a
\* passive effect.  Neither effect has a try/catch and App renders no error
\* boundary, so React unmounts the tree App is the top of: its state hooks and
\* its screen are gone, and no handler of it runs again.
EffectThrows(effect) ==
    /\ pendingEffects # << >>
    /\ Head(pendingEffects) = effect
    /\ phase' = "crashed"
    /\ pendingEffects' = << >>
    /\ pendingState' = NULL
    /\ lastOp' = [op |-> "writeFailed", effect |-> effect]
    /\ UNCHANGED <<appVars, storageVars, migrations, navTimers, timerVars,
                   settingsFormVars, formVars, calcVars, mapVars, inputVars,
                   harnessVars>>

SaveSettingsEffectThrows == EffectThrows("saveSettings")

SaveAppointmentsEffectThrows == EffectThrows("saveAppointments")

NextPersist ==
    \/ NextStore
    \/ SaveSettingsEffectThrows
    \/ SaveAppointmentsEffectThrows

SpecPersist == InitStore /\ [][NextPersist]_vars

\* C22: when the write of the appointment list that follows an add, a delete
\* or a complete fails, the list in memory keeps the value the operation gave
\* it, the application is still running and shows the same screen.
C22_WriteFailureNonFatal ==
    [][ (SaveAppointmentsEffectThrows /\ lastOp.op \in {"add", "delete", "complete"})
          => /\ phase' = "running"
             /\ appointments' = appointments
             /\ view' = view ]_vars

-----------------------------------------------------------------------------
(* SpecConcurrent: quote requests while another one is in flight            *)

InitConcurrent ==
    /\ AppDefaults
    /\ storedSettings = Stored(settings)
    /\ storedApts = Stored(appointments)
    /\ ReactIdle
    /\ TimerIdle
    /\ localSettings = settings
    /\ formEdits = 0
    /\ CalculatorMount
    /\ calc = NoCalc
    /\ earlierCalcs = << >>
    /\ nextId = 1
    /\ HarnessIdle
    /\ MapIdle /\ InputIdle
    /\ lastOp = NoOp

NextConcurrent ==
    \/ \E v \in {"", "A"} : setAddress(v)
    \/ \E d \in QuoteDates : handleAddDate(d)
    \/ \E v \in {"CALCULATOR", "SCHEDULE"} : setView(v)
    \/ handleCalculate
    \/ \E dr \in DistanceResults : CalcResolved(dr)
    \/ \E e \in DistanceErrors : CalcRejected(e)
    \/ \E k \in 1..MaxEarlier, dr \in DistanceResults : EarlierResolved(k, dr)
    \/ \E k \in 1..MaxEarlier, e \in DistanceErrors : EarlierRejected(k, e)
    \/ ToastClose

SpecConcurrent == InitConcurrent /\ [][NextConcurrent]_vars

\* ---- helpers of the claim about concurrent requests
\* The handleCalculate calls in flight, oldest first.
InFlight == earlierCalcs \o (IF calc.pc = "idle" THEN << >> ELSE << calc >>)

\* C23 as stated: whenever the Calculator is shown with a form that passes the
\* checks while a request is in flight, a second request can be issued and
\* starts.
C23_SecondRequestStarts ==
    (CalculatorOpen /\ calc.pc # "idle" /\ Validation = NULL)
        => ENABLED handleCalculate

\* C23 as amended: no request starts from a Calculator whose own request is
\* in flight (its button is disabled); a request that starts while earlier
\* ones are in flight, which are those of Calculators unmounted since, leaves
\* each of them in flight as it was, and a request leaves only by its own
\* resolution or rejection, never because another one started or finished.
C23_RequestsIndependent ==
    /\ [][ (handleCalculate /\ Validation = NULL)
             => /\ \A k \in 1..Len(InFlight) : ~InFlight[k].mounted
                /\ InFlight' = Append(InFlight, calc') ]_vars
    /\ [][ Len(InFlight') < Len(InFlight)
             => \E k \in 1..Len(InFlight) : InFlight' = RemoveAt(InFlight, k) ]_vars
    /\ [](isLoading => calc.pc # "idle" /\ calc.mounted)

\* C23 witness: two requests are in flight, the earlier one of a Calculator
\* that was unmounted, the later one of the Calculator shown.
C23_Witness ==
    /\ Len(earlierCalcs) = 1
    /\ ~earlierCalcs[1].mounted
    /\ calc.pc # "idle"
    /\ calc.mounted
    /\ isLoading

-----------------------------------------------------------------------------
(* The loader of the map SDK (src/unnamed/part_002:11-82)                   *)

\* The scripts whose load has neither called back nor failed.
Loading == { n \in 1..Len(scripts) : scripts[n] = "loading" }

\* The waitForAMap calls that await the promise of script n.
Awaiting(n) == { k \in 1..Len(waiters) : waiters[k].promise = n }

\* The promise of script n, as the cache holds it.
Promise(n) == [script |-> n]

\* The frame of the actions of the map service.
MapFrame ==
    UNCHANGED <<appVars, storageVars, reactVars, timerVars, settingsFormVars,
                formVars, calcVars, inputVars, harnessVars>>

\* A call of waitForAMap up to its await: the timer of 20000 ms is set, then
\* loadAMap answers with the resolved promise when window.AMap is there, with
\* the cached promise when there is one, and else injects a script and caches
\* its promise.  Awaiting a promise that has settled continues at once: the
\* call returns, or its catch block clears the cache.
waitForAMap ==
    /\ Len(waiters) < MaxWaiters
    /\ IF windowAMap
       THEN /\ lastOp' = [op |-> "waitForAMap", promise |-> "resolved"]
            /\ UNCHANGED mapVars
       ELSE IF aMapLoader # NULL
            THEN /\ lastOp' = [op |-> "waitForAMap", promise |-> "cached"]
                 /\ IF scripts[aMapLoader.script] = "failed"
                    THEN aMapLoader' = NULL /\ UNCHANGED waiters
                    ELSE /\ waiters' = Append(waiters, [promise |-> aMapLoader.script])
                         /\ UNCHANGED aMapLoader
                 /\ UNCHANGED <<windowAMap, scripts>>
            ELSE /\ Len(scripts) < MaxScripts
                 /\ lastOp' = [op |-> "waitForAMap", promise |-> "injected"]
                 /\ scripts' = Append(scripts, "loading")
                 /\ aMapLoader' = Promise(Len(scripts) + 1)
                 /\ waiters' = Append(waiters, [promise |-> Len(scripts) + 1])
                 /\ UNCHANGED windowAMap
    /\ MapFrame

\* The waiters left when those of the set ks have continued.
Remaining(ks) ==
    SelectSeq([ k \in 1..Len(waiters) |-> [promise |-> waiters[k].promise,
                                           gone |-> k \in ks] ],
              LAMBDA w : ~w.gone)

WaitersLeft(ks) == [ k \in 1..Len(Remaining(ks)) |-> [promise |-> Remaining(ks)[k].promise] ]

\* The script calls its callback with window.AMap set: its promise resolves
\* and the calls that await it return window.AMap.
ScriptLoaded(n) ==
    /\ n \in Loading
    /\ scripts' = [scripts EXCEPT ![n] = "loaded"]
    /\ windowAMap' = TRUE
    /\ waiters' = WaitersLeft(Awaiting(n))
    /\ lastOp' = [op |-> "scriptLoaded", script |-> n]
    /\ UNCHANGED aMapLoader
    /\ MapFrame

\* aMapLoader = null in the catch block of waitForAMap
CatchResetsLoader(n) == NULL

\* script.onerror, or the callback without window.AMap: the promise rejects
\* and every call that awaits it runs its catch block.
ScriptFailed(n) ==
    /\ n \in Loading
    /\ scripts' = [scripts EXCEPT ![n] = "failed"]
    /\ aMapLoader' = IF Awaiting(n) = {} THEN aMapLoader ELSE CatchResetsLoader(n)
    /\ waiters' = WaitersLeft(Awaiting(n))
    /\ lastOp' = [op |-> "scriptFailed", script |-> n]
    /\ UNCHANGED windowAMap
    /\ MapFrame

\* The timer of the oldest call in flight fires first (every call waits the
\* same 20000 ms): Promise.race rejects and the catch block runs.
WaiterTimeout ==
    /\ waiters # << >>
    /\ aMapLoader' = CatchResetsLoader(waiters[1].promise)
    /\ waiters' = Tail(waiters)
    /\ lastOp' = [op |-> "timeout", script |-> waiters[1].promise]
    /\ UNCHANGED <<windowAMap, scripts>>
    /\ MapFrame

-----------------------------------------------------------------------------
(* SpecLoader: callers of waitForAMap, script loads and timeouts            *)

InitLoader ==
    /\ AppDefaults
    /\ storedSettings = Stored(settings)
    /\ storedApts = Stored(appointments)
    /\ ReactIdle
    /\ TimerIdle
    /\ localSettings = settings
    /\ formEdits = 0
    /\ CalculatorMount
    /\ calc = NoCalc
    /\ earlierCalcs = << >>
    /\ nextId = 1
    /\ HarnessIdle
    /\ MapIdle /\ InputIdle
    /\ lastOp = NoOp

NextLoader ==
    \/ waitForAMap
    \/ \E n \in 1..MaxScripts : ScriptLoaded(n)
    \/ \E n \in 1..MaxScripts : ScriptFailed(n)
    \/ WaiterTimeout

SpecLoader == InitLoader /\ [][NextLoader]_vars

\* C24: at most one script injection is in flight at any time.
C24_OneInjectionInFlight ==
    Cardinality(Loading) <= 1

\* C25: a call of waitForAMap made when the last attempt has failed or timed
\* out injects a fresh script, and the cached loader of an attempt that is
\* still loading is cleared only by a failure or a timeout of a call that
\* awaits that attempt, never by one that awaits an older attempt.
C25_OlderFailureKeepsNewerCache ==
    /\ [][ (waitForAMap /\ ~windowAMap /\ lastOp.op \in {"scriptFailed", "timeout"})
             => lastOp'.promise = "injected" ]_vars
    /\ [][ (aMapLoader # NULL /\ aMapLoader' = NULL)
             => (aMapLoader.script \in Loading
                    => lastOp'.script = aMapLoader.script) ]_vars

-----------------------------------------------------------------------------
(* Saved appointments against the price function                            *)

\* C26: every appointment that handleSave added has the price that
\* calculateSingleTripPrice gives for its own distance, cat count and holiday
\* flag under the settings of the quote, whatever was edited in the form
\* between handleCalculate and handleSave.
C26_SavedPriceConsistent ==
    \A k \in 1..Len(appointments) :
        LET a == appointments[k]
        IN  a.id >= 2 =>
              a.totalPrice =
                calculateSingleTripPrice(settings, a.distanceKm, a.catCount, a.isHoliday)

-----------------------------------------------------------------------------
(* Startup against the stored records                                       *)

\* C27: as long as no add, delete or complete has run, a step leaves a stored
\* list that is not empty as it is, up to the status the migration gives to
\* entries without one.
C27_StartupKeepsStoredList ==
    [][ (lastOp' = NoOp /\ storedApts # NULL /\ storedApts.json # << >>)
          => /\ storedApts' # NULL
             /\ MigrateAll(storedApts'.json) = MigrateAll(storedApts.json) ]_vars

-----------------------------------------------------------------------------
(* The interval against mutations of the list                               *)

\* C28: no step but a tick makes the next tick later: the time the interval
\* has run since the previous tick is never taken back, so the next tick is
\* due one interval after the previous one whatever is added, deleted or
\* completed in between.
C28_MutationKeepsNextTick ==
    [][ ~checkReminders => timerAge' >= timerAge ]_vars

-----------------------------------------------------------------------------
(* SpecMidnight: a run across midnight with a tick in every minute          *)

\* Local clock readings of the run: from 23:44 of day 2, east of UTC.
MidnightStart == (2 * MinutesPerDay + 23 * 60 + 44 - 480) * UnitsPerMinute

MidnightEnd == MidnightStart + (30 + MaxWindow) * UnitsPerMinute

\* One pending appointment of day 3: at 00:00 or 00:15, which the run reaches,
\* or at 00:29.
MidnightTimes == { <<0, 0>>, <<0, 15>>, <<0, 29>> }

InitMidnight ==
    /\ view = "SCHEDULE"
    /\ settings = DEFAULT_SETTINGS
    /\ appointments \in { << ReminderAppointment(1, 3, t, "pending") >> :
                            t \in MidnightTimes }
    /\ toastMsg = NULL
    /\ storedSettings = Stored(settings)
    /\ storedApts = Stored(appointments)
    /\ ReactIdle
    /\ tz = 480
    /\ now = MidnightStart
    /\ permission \in BOOLEAN
    /\ timerAge \in 0..(IntervalUnits - 1)
    /\ tickApts = appointments
    /\ fired = {}
    /\ alertLog = {}
    /\ localSettings = settings
    /\ formEdits = 0
    /\ CalculatorMount
    /\ calc = NoCalc
    /\ earlierCalcs = << >>
    /\ nextId = 3
    /\ HarnessIdle
    /\ MapIdle /\ InputIdle
    /\ lastOp = NoOp

\* Every callback runs when it is due: each minute of the run has one tick.
NextMidnight ==
    \/ AdvanceTime /\ timerAge < IntervalUnits /\ now < MidnightEnd
    \/ checkReminders
    \/ ToastClose

SpecMidnight == InitMidnight /\ [][NextMidnight]_vars

-----------------------------------------------------------------------------
(* AddressInput (src/components/AddressInput.tsx:44-98)                    *)

\* What the user types or pastes into the input.
TypedValues == { "", "a", "ab", "abc" }

\* .length of a typed value, and of the address of a place (district and
\* street, "DS").
TermLength(term) ==
    CASE term = "" -> 0
      [] term = "a" -> 1
      [] term = "ab" -> 2
      [] term = "abc" -> 3
      [] OTHER -> 2

\* The map service answers a term with one tip named after it.
AnswerEnv(term) ==
    [ sdk |-> "loaded", constructThrows |-> FALSE, status |-> "complete",
      hasTips |-> TRUE,
      tips |-> << [id |-> "t1", location |-> TRUE, name |-> term,
                   district |-> Text("D"), address |-> Text("S")] >> ]

\* What await searchPlaces(searchTerm) gives.
ResultsFor(term) == searchPlaces(term, AnswerEnv(term)).value

\* The frame of the actions of the address input.
InputFrame ==
    UNCHANGED <<appVars, storageVars, reactVars, timerVars, settingsFormVars,
                clientName, catCount, selectedDates, time, lockCode, notes,
                calcVars, mapVars, harnessVars, lastOp>>

\* handleInputChange and handlePaste: setQuery, the onChange prop (setAddress
\* of Calculator), then the pending debounce timer is cleared and a new one
\* set.
updateValue(val) ==
    /\ CalculatorOpen
    /\ inputQuery' = val
    /\ address' = val
    /\ debounceRef' = [val |-> val]
    /\ UNCHANGED <<suggestions, loading, showDropdown, searches, issued>>
    /\ InputFrame

\* The debounce timer fires after 600 ms: performSearch(val) up to its await.
DebounceFires ==
    /\ Ready
    /\ debounceRef # NULL
    /\ Len(issued) < MaxSearches
    /\ debounceRef' = NULL
    /\ issued' = Append(issued, debounceRef.val)
    /\ IF TermLength(debounceRef.val) < 2
       THEN /\ suggestions' = << >>
            /\ showDropdown' = FALSE
            /\ UNCHANGED <<loading, searches>>
       ELSE /\ loading' = TRUE
            /\ showDropdown' = TRUE
            /\ searches' = Append(searches, debounceRef.val)
            /\ UNCHANGED suggestions
    /\ UNCHANGED <<inputQuery, address>>
    /\ InputFrame

\* setSuggestions(results) after the await
ShownAfterAnswer(k) == ResultsFor(searches[k])

\* searchPlaces of one of the calls in flight resolves, in any order: the rest
\* of performSearch runs.
SearchAnswered(k) ==
    /\ Ready
    /\ k \in 1..Len(searches)
    /\ suggestions' = ShownAfterAnswer(k)
    /\ loading' = FALSE
    /\ showDropdown' = TRUE
    /\ searches' = RemoveAt(searches, k)
    /\ UNCHANGED <<inputQuery, address, debounceRef, issued>>
    /\ InputFrame

\* {showDropdown && (query.length > 1) && ...}: the list is rendered.
DropdownShown == showDropdown /\ TermLength(inputQuery) > 1

\* A click on a suggestion.
handleSelect(item) ==
    /\ CalculatorOpen
    /\ DropdownShown
    /\ ~loading
    /\ inputQuery' = item.address
    /\ address' = item.address
    /\ showDropdown' = FALSE
    /\ UNCHANGED <<suggestions, loading, debounceRef, searches, issued>>
    /\ InputFrame

-----------------------------------------------------------------------------
(* SpecInput: typing, debounce timers and answers of the place search       *)

InitInput ==
    /\ AppDefaults
    /\ storedSettings = Stored(settings)
    /\ storedApts = Stored(appointments)
    /\ ReactIdle
    /\ TimerIdle
    /\ localSettings = settings
    /\ formEdits = 0
    /\ CalculatorMount
    /\ calc = NoCalc
    /\ earlierCalcs = << >>
    /\ nextId = 1
    /\ HarnessIdle
    /\ MapIdle /\ InputIdle
    /\ lastOp = NoOp

NextInput ==
    \/ \E val \in TypedValues : updateValue(val)
    \/ DebounceFires
    \/ \E k \in 1..MaxSearches : SearchAnswered(k)
    \/ \E k \in 1..Len(suggestions) : handleSelect(suggestions[k])

SpecInput == InitInput /\ [][NextInput]_vars

\* C30: once no search is in flight and no debounce timer is pending, the
\* suggestion list, when it is shown, is the result of the term of the last
\* performSearch call.
C30_LatestQueryWins ==
    (searches = << >> /\ debounceRef = NULL /\ issued # << >> /\ DropdownShown)
        => suggestions = IF TermLength(issued[Len(issued)]) < 2 THEN << >>
                         ELSE ResultsFor(issued[Len(issued)])

=============================================================================
